---- MODULE Spec2Model ----
(***************************************************************************)
(* A model of multisieve_coreference: the Entity cluster (entity.py), the  *)
(* ordered Entities collection (entities.py) and the SieveRunner           *)
(* (sieve_runner.py).                                                      *)
(*                                                                         *)
(* Entity objects are identified by small integers (their Python id());    *)
(* a Mention is identified by its id attribute.  Python indices are        *)
(* 0-based and are kept 0-based in _contained_entities; the TLA+ sequence  *)
(* _all_entities is 1-based, so index i is read as all_entities[i + 1].    *)
(***************************************************************************)
EXTENDS Integers, Sequences, FiniteSets, TLC

\* Number of mentions (ids 1..NumMentions) a collection is built from.
NumMentions == 3

\* Cap on len(_all_entities): add() of a removed entity appends a new slot.
MaxSlots == 4

\* Cap on len(entity.mentions): Entity._merge appends without deduplication.
MaxEntityLen == 3

\* Longest list of mentions handed to Entities.from_mentions.
MaxInput == 4

\* Number of documents resolved at the same time, one thread each.
NumDocs == 2

\* Number of term ids (t_1, t_2, ...); every document numbers its terms
\* from the start.
NumTerms == 2

MentionIds == 1..NumMentions

\* Entity objects.  An object k exists in a behaviour iff mentions[k] is
\* non-empty (Entity.__init__ refuses an empty list).
Ents == 1..NumMentions

\* Python's None in a slot of _all_entities / as a sieve's return value.
None == 0

\* A value that is not an Entity (a mention id handed over where an Entity
\* is expected, as Cquotation.source / addressee / topic are).
NotAnEntity == NumMentions + 1

VARIABLES
    mentions,           \* Entity.mentions of every Entity object
    all_entities,       \* Entities._all_entities
    contained,          \* Entities._contained_entities: {id(entity): index}
    disjoint_mentions,  \* Entities.disjoint_mentions: set of frozensets of ids
    last,               \* the last call made on the collection and its outcome
    marked,             \* history: the pair of id sets of every successful mark_disjoint
    run,                \* SieveRunner.run: the state of the pass in progress
    head2deps,          \* the module-level dictionary constituents.head2deps
    threads,            \* the resolution runs of test_multithreading, one per document
    attrs,              \* the attributes of every Mention object, by mention id
    offset2string,      \* the dictionary get_offset2string_dict made of the document
    quotations,         \* the list of quotations handed to speaker_identification
    nafobj,             \* the annotation layers of the document that are read
    result              \* the last application of a sieve or function and what it returned

\* The state of one Entities collection and of the pass over it.
collection == <<mentions, all_entities, contained, disjoint_mentions, last, marked, run>>

\* The state outside the collection.
others == <<head2deps, threads, attrs, offset2string, quotations, nafobj, result>>

vars == <<mentions, all_entities, contained, disjoint_mentions, last, marked, run,
          head2deps, threads, attrs, offset2string, quotations, nafobj, result>>

\* No sieve or function has been applied.
NoResult == [fn |-> "none"]

\* No document has been read: the dictionaries are empty and no thread has
\* been started.
NoDocument ==
    /\ head2deps = <<>>
    /\ threads = <<>>
    /\ offset2string = <<>>
    /\ quotations = <<>>
    /\ nafobj = <<>>
    /\ result = NoResult

\* Nothing outside the collection is in use; the mentions are stand-ins
\* that have an id and nothing else.
OthersIdle ==
    /\ NoDocument
    /\ attrs = [m \in MentionIds |-> [id |-> m]]

----------------------------------------------------------------------------
(* entity.py *)

\* The attributes an Entity instance resolves: the instance attribute
\* `mentions` and the methods of class Entity.  There is a method `_merge`
\* and there is no attribute `merge`.
EntityAttrsWithMerge == {"mentions", "_merge", "merge", "non_unique_mention_attr",
                         "mention_attr", "flat_mention_attr"}

EntityAttrs == {"mentions", "_merge", "non_unique_mention_attr",
                "mention_attr", "flat_mention_attr"}

\* Entity objects that have been constructed.
Objs == {e \in Ents : mentions[e] # <<>>}

\* entity.mention_attr('id'): every Mention has an id, so this is the set of
\* the ids of the entity's mentions.
mention_attr_id(e) == {mentions[e][i] : i \in DOMAIN mentions[e]}

\* Entity._merge(self, entity): extend self.mentions by entity's mentions
\* unless both are the same list object (each Entity owns its own list, so
\* the lists are the same object iff the entities are).
Entity_merge(self, entity) ==
    IF entity # self
    THEN [mentions EXCEPT ![self] = mentions[self] \o mentions[entity]]
    ELSE mentions

----------------------------------------------------------------------------
(* entities.py: queries *)

NotNone(x) == x # None

\* Entities.__contains__
Contains(e) == e \in DOMAIN contained

\* Entities.__len__
Length == Cardinality(DOMAIN contained)

\* Entities.__iter__(end): filter(not None, _all_entities[:end])
Iter(end) == SelectSeq(SubSeq(all_entities, 1, end), NotNone)

IterAll == Iter(Len(all_entities))

\* An entities_before whose slice ends one slot too late.
entities_before_inclusive(e) == Iter(contained[e] + 1)

\* Entities.entities_before(entity); the caller guarantees membership.
entities_before(e) == Iter(contained[e])

\* Entities.merge_allowed
merge_allowed(one, other) ==
    \A om \in mention_attr_id(one), tm \in mention_attr_id(other) :
        {om, tm} \notin disjoint_mentions

\* Entities.disjointness_constraints_satisfied(entities=None)
disjointness_constraints_satisfied ==
    \A i \in DOMAIN IterAll :
        \A a \in mention_attr_id(IterAll[i]), b \in mention_attr_id(IterAll[i]) :
            {a, b} \notin disjoint_mentions

\* Entities.get_candidates(entity, entity_filter) for a member entity; the
\* filter is given by the set F of the entities it accepts.
get_candidates(e, F) ==
    LET Keep(c) == c \in F /\ merge_allowed(e, c)
    IN  SelectSeq(entities_before(e), Keep)

SeqToSet(s) == {s[i] : i \in DOMAIN s}

----------------------------------------------------------------------------
(* Initial state: Entities(map(Entity, partition)) over mentions with      *)
(* distinct ids, the partition cutting the mention list into consecutive   *)
(* blocks (tests/partitions.py); Entities.from_mentions is the partition   *)
(* into singletons.                                                        *)

\* The block (1-based) of mention m when the list is cut after every
\* position in cuts.
BlockOf(m, cuts) == 1 + Cardinality({c \in cuts : c < m})

IdsOfBlock(k, cuts) == {m \in MentionIds : BlockOf(m, cuts) = k}

RECURSIVE Ascending(_)
Ascending(S) ==
    IF S = {} THEN <<>>
    ELSE LET m == CHOOSE x \in S : \A y \in S : x <= y
         IN  <<m>> \o Ascending(S \ {m})

\* `last` records the operation, its two arguments, whether the first
\* argument was a member when the call was made, the outcome ("ok" or the
\* exception raised) and a bit that flips with every call.
NoCall == [op |-> "init", a |-> None, b |-> None, am |-> FALSE, res |-> "ok",
           tick |-> 0]

\* No pass in progress.  todo: the entities the pass has still to visit;
\* cur: the entity being processed; offered: get_candidates(cur) as it was
\* when the sieve was called; status: how the last pass ended; forbidden:
\* whether a pass ever completed a merge of two entities that merge_allowed
\* rejected.
Idle == [pc |-> "idle", todo |-> <<>>, cur |-> None, offered |-> <<>>,
         status |-> "none", forbidden |-> FALSE]

\* Entities.overwrite_entities on the list of the partition's entities.
CollectionWith(cuts) ==
    /\ mentions = [k \in Ents |-> Ascending(IdsOfBlock(k, cuts))]
    /\ all_entities = [k \in 1..(Cardinality(cuts) + 1) |-> k]
    /\ contained = [k \in 1..(Cardinality(cuts) + 1) |-> k - 1]
    /\ disjoint_mentions = {}
    /\ last = NoCall
    /\ marked = {}
    /\ run = Idle

\* A collection of entities of stand-in mentions.
InitWith(cuts) == CollectionWith(cuts) /\ OthersIdle

Init == \E cuts \in SUBSET (1..(NumMentions - 1)) : InitWith(cuts)

\* Entities.from_mentions on mentions with pairwise distinct ids.
InitFromMentions == InitWith(1..(NumMentions - 1))

----------------------------------------------------------------------------
(* entities.py: operations.  Every call is recorded in `last`.             *)

Called(op, a, b, res) ==
    last' = [op |-> op, a |-> a, b |-> b, am |-> Contains(a), res |-> res,
             tick |-> 1 - last.tick]

\* Entities.add
Add(e) ==
    /\ UNCHANGED others
    /\ run.pc = "idle"
    /\ e \in Objs
    /\ Len(all_entities) < MaxSlots
    /\ IF ~Contains(e)
       THEN /\ contained' = [k \in DOMAIN contained \cup {e} |->
                                IF k = e THEN Len(all_entities) ELSE contained[k]]
            /\ all_entities' = Append(all_entities, e)
       ELSE UNCHANGED <<all_entities, contained>>
    /\ Called("add", e, None, "ok")
    /\ UNCHANGED <<mentions, disjoint_mentions, marked, run>>

\* A remove that forgets the entity in the index and leaves its slot.
RemoveMemberNoTombstone(e) ==
    /\ all_entities' = all_entities
    /\ contained' = [k \in DOMAIN contained \ {e} |-> contained[k]]

\* A remove that deletes the slot, letting the later entities move up
\* under their old indices.
RemoveMemberCompacting(e) ==
    /\ all_entities' = SubSeq(all_entities, 1, contained[e])
                         \o SubSeq(all_entities, contained[e] + 2, Len(all_entities))
    /\ contained' = [k \in DOMAIN contained \ {e} |-> contained[k]]

\* The state change of Entities.remove on a member.
RemoveMember(e) ==
    /\ all_entities' = [all_entities EXCEPT ![contained[e] + 1] = None]
    /\ contained' = [k \in DOMAIN contained \ {e} |-> contained[k]]

\* Entities.remove
Remove(e) ==
    /\ UNCHANGED others
    /\ run.pc = "idle"
    /\ e \in Objs
    /\ IF Contains(e)
       THEN RemoveMember(e) /\ Called("remove", e, None, "ok")
       ELSE UNCHANGED <<all_entities, contained>>
            /\ Called("remove", e, None, "KeyError")
    /\ UNCHANGED <<mentions, disjoint_mentions, marked, run>>

\* A discard that leaves a member where it is.
DiscardEffectNothing(e) == UNCHANGED <<all_entities, contained>>

\* The state change of Entities.discard.
DiscardEffect(e) ==
    IF Contains(e) THEN RemoveMember(e)
    ELSE UNCHANGED <<all_entities, contained>>

\* Entities.discard
Discard(e) ==
    /\ UNCHANGED others
    /\ run.pc = "idle"
    /\ e \in Objs
    /\ DiscardEffect(e)
    /\ Called("discard", e, None, "ok")
    /\ UNCHANGED <<mentions, disjoint_mentions, marked, run>>

\* The pairs Entities.mark_disjoint(one, other) adds.
CrossPairs(one, other) ==
    {{om, tm} : om \in mention_attr_id(one), tm \in mention_attr_id(other)}

\* A mark_disjoint that refuses only an entity paired with itself.
MarkRaisesSameObject(one, other) == one = other

\* Whether Entities.mark_disjoint(one, other) raises ValueError.
MarkRaises(one, other) == mention_attr_id(one) \cap mention_attr_id(other) # {}

\* A mark_disjoint that assigns the new pairs instead of adding them.
MarkEffectAssign(one, other) ==
    IF MarkRaises(one, other)
    THEN UNCHANGED disjoint_mentions
    ELSE disjoint_mentions' = CrossPairs(one, other)

\* The state change of Entities.mark_disjoint(one, other) on two Entity
\* objects.
MarkEffect(one, other) ==
    IF MarkRaises(one, other)
    THEN UNCHANGED disjoint_mentions
    ELSE disjoint_mentions' = disjoint_mentions \cup CrossPairs(one, other)

\* History: remember the id sets a successful mark_disjoint(one, other) was
\* given.
Remember(one, other) ==
    marked' = IF MarkRaises(one, other) THEN marked
              ELSE marked \cup {{mention_attr_id(one), mention_attr_id(other)}}

MarkOutcome(one, other) == IF MarkRaises(one, other) THEN "ValueError" ELSE "ok"

\* Entities.mark_disjoint
MarkDisjoint(one, other) ==
    /\ UNCHANGED others
    /\ run.pc = "idle"
    /\ one \in Objs /\ other \in Objs
    /\ MarkEffect(one, other)
    /\ Called("mark_disjoint", one, other, MarkOutcome(one, other))
    /\ UNCHANGED <<mentions, all_entities, contained, run>>

\* mark_disjoint with the call remembered in `marked`.
MarkDisjointRemembered(one, other) ==
    MarkDisjoint(one, other) /\ Remember(one, other)

\* mark_disjoint in the specifications that keep no history of it.
MarkDisjointPlain(one, other) ==
    MarkDisjoint(one, other) /\ UNCHANGED marked

\* The outcome of Entities.merge(entity_to_keep, other): ValueError when
\* entity_to_keep is not a member; otherwise the attribute lookup
\* entity_to_keep.merge, which raises AttributeError unless Entity has such
\* an attribute.
MergeOutcome(keep) ==
    IF ~Contains(keep) THEN "ValueError"
    ELSE IF "merge" \notin EntityAttrs THEN "AttributeError"
    ELSE "ok"

\* A merge that extends the kept entity and leaves the other a member.
MergeEffectKeepsOther(keep, other) ==
    IF Contains(keep)
    THEN mentions' = Entity_merge(keep, other) /\ UNCHANGED <<all_entities, contained>>
    ELSE UNCHANGED <<mentions, all_entities, contained>>

\* The state change of Entities.merge(entity_to_keep, other).
MergeEffect(keep, other) ==
    IF MergeOutcome(keep) = "ok"
    THEN /\ mentions' = Entity_merge(keep, other)
         /\ IF keep # other THEN DiscardEffect(other)
            ELSE UNCHANGED <<all_entities, contained>>
    ELSE UNCHANGED <<mentions, all_entities, contained>>

\* Entities.merge
Merge(keep, other) ==
    /\ UNCHANGED others
    /\ run.pc = "idle"
    /\ keep \in Objs /\ other \in Objs
    /\ Len(mentions[keep]) + Len(mentions[other]) <= MaxEntityLen
    /\ MergeEffect(keep, other)
    /\ Called("merge", keep, other, MergeOutcome(keep))
    /\ UNCHANGED <<disjoint_mentions, marked, run>>

\* A direct call of Entity._merge (as tests/test_entity.py makes).
EntityMerge(self, entity) ==
    /\ UNCHANGED others
    /\ run.pc = "idle"
    /\ self \in Objs /\ entity \in Objs
    /\ Len(mentions[self]) + Len(mentions[entity]) <= MaxEntityLen
    /\ mentions' = Entity_merge(self, entity)
    /\ UNCHANGED <<all_entities, contained, disjoint_mentions, last, marked, run>>

----------------------------------------------------------------------------
(* sieve_runner.py: SieveRunner.run(sieve).  The sieve is any function that *)
(* may call its mark_disjoint callback and returns None or a match.        *)

\* An exception leaves run(): the pass is over.
Raised == [run EXCEPT !.pc = "idle", !.status = "raised"]

\* `for entity in self.entities`: Entities.__iter__ filters a copy of
\* _all_entities (the slice _all_entities[:None]), so the pass visits the
\* entities that were members when it started.
RunStart ==
    /\ UNCHANGED others
    /\ run.pc = "idle"
    /\ run' = [run EXCEPT !.pc = "loop", !.todo = IterAll, !.cur = None,
                          !.offered = <<>>, !.status = "running"]
    /\ UNCHANGED <<mentions, all_entities, contained, disjoint_mentions, last, marked>>

\* The head of the loop: the next entity and self.entities.get_candidates(
\* entity), which raises ValueError for a non-member.  The candidates are a
\* generator over a copy of the slice before the entity; the runner passes no
\* filter.
RunNext ==
    /\ UNCHANGED others
    /\ run.pc = "loop"
    /\ IF run.todo = <<>>
       THEN /\ run' = [run EXCEPT !.pc = "idle", !.status = "done", !.cur = None,
                                  !.offered = <<>>]
            /\ UNCHANGED last
       ELSE LET entity == Head(run.todo)
            IN  IF Contains(entity)
                THEN /\ run' = [run EXCEPT !.pc = "sieve", !.todo = Tail(run.todo),
                                           !.cur = entity,
                                           !.offered = get_candidates(entity, Objs)]
                     /\ UNCHANGED last
                ELSE /\ run' = [Raised EXCEPT !.todo = Tail(run.todo), !.cur = entity]
                     /\ Called("get_candidates", entity, None, "ValueError")
    /\ UNCHANGED <<mentions, all_entities, contained, disjoint_mentions, marked>>

\* The sieve calls mark_disjoint(other), i.e. Entities.mark_disjoint(entity,
\* other).  A value that is no Entity has no mention_attr: AttributeError.
SieveMark(other) ==
    /\ UNCHANGED others
    /\ run.pc = "sieve"
    /\ other \in Objs \cup {NotAnEntity}
    /\ IF other = NotAnEntity
       THEN /\ UNCHANGED disjoint_mentions
            /\ Called("mark_disjoint", run.cur, other, "AttributeError")
            /\ run' = Raised
       ELSE /\ MarkEffect(run.cur, other)
            /\ Called("mark_disjoint", run.cur, other, MarkOutcome(run.cur, other))
            /\ run' = IF MarkRaises(run.cur, other) THEN Raised ELSE run
    /\ UNCHANGED <<mentions, all_entities, contained, marked>>

\* The sieve returns `match`; a match that is not None is merged at once by
\* self.entities.merge(match, entity).  A value that is no Entity is not a
\* member: ValueError.
SieveMerge(match) ==
    /\ run.pc = "sieve"
    /\ match \in Objs \cup {None, NotAnEntity}
    /\ IF match = None
       THEN /\ run' = [run EXCEPT !.pc = "loop"]
            /\ UNCHANGED <<mentions, all_entities, contained, last>>
       ELSE IF match = NotAnEntity
       THEN /\ run' = Raised
            /\ Called("merge", match, run.cur, "ValueError")
            /\ UNCHANGED <<mentions, all_entities, contained>>
       ELSE /\ Len(mentions[match]) + Len(mentions[run.cur]) <= MaxEntityLen
            /\ MergeEffect(match, run.cur)
            /\ Called("merge", match, run.cur, MergeOutcome(match))
            /\ run' = IF MergeOutcome(match) = "ok"
                      THEN [run EXCEPT !.pc = "loop",
                                       !.forbidden = @ \/ ~merge_allowed(match, run.cur)]
                      ELSE Raised

\* A sieve that marks nothing disjoint returns `match`.
SieveReturnEffect(match) ==
    SieveMerge(match) /\ UNCHANGED <<disjoint_mentions, marked>>

\* A sieve that looks at nothing but the collection returns `match`.
SieveReturn(match) == SieveReturnEffect(match) /\ UNCHANGED others

NextRun ==
    \/ RunStart
    \/ RunNext
    \/ \E o \in Ents \cup {NotAnEntity} : SieveMark(o)
    \/ \E m \in Ents \cup {None, NotAnEntity} : SieveReturn(m)

\* Sieve passes over a collection built by Entities.from_mentions.
SpecRun == InitFromMentions /\ [][NextRun]_vars

----------------------------------------------------------------------------

----------------------------------------------------------------------------
(* entities.py: Entities.from_mentions, the constructor used by the        *)
(* pipeline.  A list of mentions is given by the list of their ids.        *)

\* The lists of mentions handed to from_mentions.
MentionLists == UNION {[1..n -> MentionIds] : n \in 0..MaxInput}

\* No collection has been built yet.
NoCollection ==
    /\ OthersIdle
    /\ mentions = [k \in Ents |-> <<>>]
    /\ all_entities = <<>>
    /\ contained = <<>>
    /\ disjoint_mentions = {}
    /\ last = NoCall
    /\ marked = {}
    /\ run = Idle

\* A duplicate check that compares neighbours only.
DuplicateIdsAdjacent(ms) == \E i \in 1..(Len(ms) - 1) : ms[i] = ms[i + 1]

\* `len(ids) != len(mentions)` for ids = Counter(m.id for m in mentions).
DuplicateIds(ms) == Cardinality({ms[i] : i \in DOMAIN ms}) # Len(ms)

\* es = Entities.from_mentions(ms): ValueError on duplicate ids, and `es`
\* keeps what it was; otherwise Entities(Entity([m]) for m in ms), which is
\* overwrite_entities on the singletons and an empty disjointness set.
FromMentions(ms) ==
    /\ UNCHANGED others
    /\ run.pc = "idle"
    /\ ms \in MentionLists
    /\ IF DuplicateIds(ms)
       THEN /\ UNCHANGED <<mentions, all_entities, contained, disjoint_mentions>>
            /\ last' = [op |-> "from_mentions", a |-> ms, b |-> None, am |-> FALSE,
                        res |-> "ValueError", tick |-> 1 - last.tick]
       ELSE /\ mentions' = [k \in Ents |-> IF k <= Len(ms) THEN <<ms[k]>> ELSE <<>>]
            /\ all_entities' = [k \in 1..Len(ms) |-> k]
            /\ contained' = [k \in 1..Len(ms) |-> k - 1]
            /\ disjoint_mentions' = {}
            /\ last' = [op |-> "from_mentions", a |-> ms, b |-> None, am |-> FALSE,
                        res |-> "ok", tick |-> 1 - last.tick]
    /\ UNCHANGED <<marked, run>>

NextFromMentions == \E ms \in MentionLists : FromMentions(ms)

\* A program that builds collections with from_mentions.
SpecFromMentions == NoCollection /\ [][NextFromMentions]_vars

----------------------------------------------------------------------------
(* resolve_coreference.py: resolve_coreference run by one thread per        *)
(* document (tests/integration/test_multithreading.py).  Each run first     *)
(* calls initialize_global_dictionaries, which fills the module-level       *)
(* dictionaries of module constituents from its own document, and then      *)
(* get_mentions, whose Constituent objects read them.  head2deps stands for *)
(* both dictionaries (head2deps and dep2heads are filled and read alike).   *)
(* A dictionary entry is written as the document it was made from.          *)

Docs == 1..NumDocs

Terms == 1..NumTerms

\* What a run finds when it is the only one: under each of its terms the
\* entry of its own document.
Alone(d) == [t \in Terms |-> d]

\* A thread waiting at the barrier.
AtBarrier == [pc |-> "barrier", todo |-> {}, found |-> [t \in Terms |-> None]]

\* All threads have been created and started; each waits at the barrier.
ThreadsStarted ==
    /\ mentions = [k \in Ents |-> <<>>]
    /\ all_entities = <<>>
    /\ contained = <<>>
    /\ disjoint_mentions = {}
    /\ last = NoCall
    /\ marked = {}
    /\ run = Idle
    /\ head2deps = [t \in Terms |-> None]
    /\ threads = [d \in Docs |-> AtBarrier]
    /\ attrs = [m \in MentionIds |-> [id |-> m]]
    /\ offset2string = <<>>
    /\ quotations = <<>>
    /\ nafobj = <<>>
    /\ result = NoResult

\* barrier.wait() returns and resolve_coreference calls
\* initialize_global_dictionaries, i.e. create_headdep_dicts(nafobj), which
\* either starts from empty dictionaries or goes on with the ones there are.
create_headdep_dicts(d) ==
    /\ threads[d].pc = "barrier"
    /\ \/ head2deps' = [t \in Terms |-> None]
       \/ UNCHANGED head2deps
    /\ threads' = [threads EXCEPT ![d].pc = "fill", ![d].todo = Terms]
    /\ UNCHANGED <<collection, attrs, offset2string, quotations, nafobj, result>>

\* create_headdep_dicts records the dependencies of one more term of its
\* document.
create_headdep_dicts_entry(d, t) ==
    /\ threads[d].pc = "fill"
    /\ t \in threads[d].todo
    /\ head2deps' = [head2deps EXCEPT ![t] = d]
    /\ threads' = [threads EXCEPT
                      ![d].todo = @ \ {t},
                      ![d].pc = IF threads[d].todo = {t} THEN "mentions" ELSE "fill"]
    /\ UNCHANGED <<collection, attrs, offset2string, quotations, nafobj, result>>

\* get_mentions starts: the Constituent of every mention will look up its
\* head term.
get_mentions(d) ==
    /\ threads[d].pc = "mentions"
    /\ threads' = [threads EXCEPT ![d].pc = "read", ![d].todo = Terms]
    /\ UNCHANGED <<head2deps, collection, attrs, offset2string, quotations, nafobj, result>>

\* csts.head2deps.get(head_id, []) in get_modifiers, get_appositives and
\* _add_predicative_information: the run reads the entry now in the
\* dictionary.
get_modifiers(d, t) ==
    /\ threads[d].pc = "read"
    /\ t \in threads[d].todo
    /\ threads' = [threads EXCEPT
                      ![d].found[t] = head2deps[t],
                      ![d].todo = @ \ {t},
                      ![d].pc = IF threads[d].todo = {t} THEN "done" ELSE "read"]
    /\ UNCHANGED <<head2deps, collection, attrs, offset2string, quotations, nafobj, result>>

NextThreads ==
    \/ \E d \in Docs : create_headdep_dicts(d)
    \/ \E d \in Docs, t \in Terms : create_headdep_dicts_entry(d, t)
    \/ \E d \in Docs : get_mentions(d)
    \/ \E d \in Docs, t \in Terms : get_modifiers(d, t)

\* The threads of test_multithreading, interleaved in any way.
SpecThreads == ThreadsStarted /\ [][NextThreads]_vars

----------------------------------------------------------------------------
(* resolve_coreference.py: the sieves, run by SieveRunner.run over the      *)
(* collection Entities.from_mentions built of the document's mentions.      *)

\* The token strings of a document.
Strings == {"Jan", "hij", "AFP"}

\* The character offsets of a document's tokens.
Offsets == 1..NumMentions

\* Python's None as the value of a string attribute of a Mention.
PyNone == "None"

\* Mention(id=m, span=(m,), head_offset=m, begin_offset=m, end_offset=m+1,
\* head_pos='noun', sentence_number=1): the other attributes have the defaults of
\* Mention.__init__; a tuple of spans is written as the set of its spans.
PlainMention(m) ==
    [id |-> m, span |-> <<m>>, head_pos |-> "noun", sentence_number |-> 1,
     number |-> PyNone, gender |-> PyNone, person |-> PyNone,
     entity_type |-> PyNone, head_offset |-> m,
     is_relative_pronoun |-> FALSE, is_reflexive_pronoun |-> FALSE,
     modifiers |-> {}, appositives |-> {}, predicatives |-> {},
     begin_offset |-> m, end_offset |-> m + 1,
     non_stopwords |-> {}, main_modifiers |-> {}]

\* offset_info.get_strings_from_offsets(id_span, offset2string)
get_strings_from_offsets(id_span) ==
    [i \in DOMAIN id_span |-> offset2string[id_span[i]]]

\* `lambda m: m.span`, the get_span of match_full_name_overlap.
get_span(m) == attrs[m].span

\* match_some_span: mention_string of a mention of the entity.
mention_string(mention) == get_strings_from_offsets(get_span(mention))

\* match_some_span: candidate_string, computed inside the loop over the
\* candidate's mentions from get_span(mention), the entity's mention.
candidate_string(mention, candidate_mention) ==
    get_strings_from_offsets(get_span(mention))

\* match_some_span(entity, candidates, get_span, offset2string) with the
\* default candidate_filter.  `candidates` is the generator get_candidates
\* returned: the loop over the entity's first mention uses it up, so only
\* that mention is compared.  The first candidate with a mention whose
\* candidate_string equals mention_string is returned, else None.
match_some_span(entity, candidates) ==
    LET mention == mentions[entity][1]
        hits == {j \in DOMAIN candidates :
                    \E i \in DOMAIN mentions[candidates[j]] :
                        candidate_string(mention, mentions[candidates[j]][i])
                            = mention_string(mention)}
    IN  IF hits = {} THEN None
        ELSE candidates[CHOOSE j \in hits : \A k \in hits : j <= k]

\* match_full_name_overlap(entity, candidates, mark_disjoint, offset2string)
match_full_name_overlap(entity, candidates) == match_some_span(entity, candidates)

\* What `result` holds after sieve fn was applied to the entity of the pass:
\* what it returned, or the exception it raised.
Applied(fn, match, res) ==
    [fn |-> fn, entity |-> run.cur, candidates |-> run.offered, match |-> match,
     res |-> res]

\* sieve_runner.run(match_full_name_overlap, offset2string=offset2string):
\* the sieve is applied to the current entity and the runner merges a match.
SieveExactMatch ==
    /\ run.pc = "sieve"
    /\ LET match == match_full_name_overlap(run.cur, run.offered)
       IN  /\ SieveReturnEffect(match)
           /\ result' = Applied("match_full_name_overlap", match, "ok")
    /\ UNCHANGED <<head2deps, threads, attrs, offset2string, quotations, nafobj>>

\* A document whose mentions are single tokens, and the collection
\* from_mentions builds of them.
InitStrings ==
    /\ CollectionWith(1..(NumMentions - 1))
    /\ head2deps = <<>>
    /\ threads = <<>>
    /\ attrs = [m \in MentionIds |-> PlainMention(m)]
    /\ offset2string \in [Offsets -> Strings]
    /\ quotations = <<>>
    /\ nafobj = <<>>
    /\ result = NoResult

NextExactMatch ==
    \/ RunStart
    \/ RunNext
    \/ SieveExactMatch

\* The exact string match pass of resolve_coreference.
SpecExactMatch == InitStrings /\ [][NextExactMatch]_vars

\* max_sentence_distance=3, as resolve_coreference passes it.
max_sentence_distance == 3

\* Sentence numbers: the first sentence and one more than
\* max_sentence_distance away from it.
Sentences == {1, 1 + max_sentence_distance + 1}

Genders == {PyNone, "masc", "fem"}

Numbers == {"ev", "mv"}

\* Entity.mention_attr(attr) on an entity of Mention objects, which all
\* have every attribute: the set of the values, None included.
mention_attr(entity, attr) ==
    {attrs[mentions[entity][i]][attr] : i \in DOMAIN mentions[entity]}

\* `not cnd or not own or cnd & own`
NoConflict(cnd, own) == cnd = {} \/ own = {} \/ cnd \cap own # {}

\* resolve_pronoun_coreference(entity, candidates, mark_disjoint,
\* max_sentence_distance): for an entity of pronouns only, the first
\* candidate that is close enough and passes the agreement test; cnd_number,
\* cnd_gender, cnd_person and cnd_label are read from `entity`.
resolve_pronoun_coreference(entity, candidates) ==
    IF mention_attr(entity, "head_pos") = {"pron"}
    THEN LET sentence_number == mention_attr(entity, "sentence_number")
             max_sent_nr == (CHOOSE n \in sentence_number :
                                \A k \in sentence_number : k <= n) + max_sentence_distance
             min_sent_nr == (CHOOSE n \in sentence_number :
                                \A k \in sentence_number : n <= k) - max_sentence_distance
             close_enough(c) == \E n \in mention_attr(c, "sentence_number") :
                                    min_sent_nr <= n /\ n <= max_sent_nr
             hits == {j \in DOMAIN candidates :
                        /\ close_enough(candidates[j])
                        /\ \A a \in {"number", "gender", "person", "entity_type"} :
                              NoConflict(mention_attr(entity, a),
                                         mention_attr(entity, a))}
         IN  IF hits = {} THEN None
             ELSE candidates[CHOOSE j \in hits : \A k \in hits : j <= k]
    ELSE None

\* sieve_runner.run(resolve_pronoun_coreference, max_sentence_distance=3)
SievePronoun ==
    /\ run.pc = "sieve"
    /\ LET match == resolve_pronoun_coreference(run.cur, run.offered)
       IN  /\ SieveReturnEffect(match)
           /\ result' = Applied("resolve_pronoun_coreference", match, "ok")
    /\ UNCHANGED <<head2deps, threads, attrs, offset2string, quotations, nafobj>>

\* A document of nouns and pronouns and the collection from_mentions builds
\* of its mentions.
InitPronouns ==
    /\ CollectionWith(1..(NumMentions - 1))
    /\ head2deps = <<>>
    /\ threads = <<>>
    /\ \E pos \in [MentionIds -> {"noun", "pron"}], snr \in [MentionIds -> Sentences],
          gen \in [MentionIds -> Genders], num \in [MentionIds -> Numbers] :
          attrs = [m \in MentionIds |->
                      [PlainMention(m) EXCEPT !.head_pos = pos[m],
                                              !.sentence_number = snr[m],
                                              !.gender = gen[m],
                                              !.number = num[m]]]
    /\ offset2string = [o \in Offsets |-> "hij"]
    /\ quotations = <<>>
    /\ nafobj = <<>>
    /\ result = NoResult

NextPronoun ==
    \/ RunStart
    \/ RunNext
    \/ SievePronoun

\* The pronoun resolution pass of resolve_coreference.
SpecPronoun == InitPronouns /\ [][NextPronoun]_vars

\* filters.CORRECT_TYPES and the correct_types of
\* identify_acronyms_or_alternative_names
CORRECT_TYPES == {"PER", "ORG", "LOC", "MISC"}

\* The attributes a Mention object has (Mention.__init__).
MentionAttrs == {"id", "span", "head_pos", "sentence_number", "number", "gender",
                 "person", "entity_type", "head_offset", "is_relative_pronoun",
                 "is_reflexive_pronoun", "modifiers", "appositives", "predicatives",
                 "begin_offset", "end_offset", "non_stopwords", "main_modifiers"}

\* Entity.flat_mention_attr(attr) for an attribute every mention has as a
\* collection.
flat_mention_attr(entity, attr) ==
    UNION {attrs[mentions[entity][i]][attr] : i \in DOMAIN mentions[entity]}

\* `for candidate in candidates: if <test>: return candidate` on the
\* generator `candidates`, `passing` being the candidates that pass the
\* test: the match, or None, and what is left of the generator afterwards.
Loop(candidates, passing) ==
    LET hits == {j \in DOMAIN candidates : candidates[j] \in passing}
    IN  IF hits = {} THEN [match |-> None, rest |-> <<>>]
        ELSE LET j == CHOOSE h \in hits : \A k \in hits : h <= k
             IN  [match |-> candidates[j],
                  rest |-> SubSeq(candidates, j + 1, Len(candidates))]

\* identify_some_structures(entity, candidates, structure_name)
identify_some_structures(entity, candidates, structure_name) ==
    LET structures == flat_mention_attr(entity, structure_name)
        P(c) == \E i \in DOMAIN mentions[c] : attrs[mentions[c][i]].span \in structures
    IN  Loop(candidates, {c \in SeqToSet(candidates) : P(c)})

\* identify_appositive_structures: the call of identify_some_structures
\* uses the generator; its result is not returned.
identify_appositive_structures(entity, candidates) ==
    [match |-> None,
     rest |-> identify_some_structures(entity, candidates, "appositives").rest]

\* identify_predicative_structures: likewise.
identify_predicative_structures(entity, candidates) ==
    [match |-> None,
     rest |-> identify_some_structures(entity, candidates, "predicatives").rest]

\* resolve_relative_pronoun_structures: for an entity with a relative
\* pronoun, entity.mention_attr('head_offsets') raises AttributeError, since
\* no Mention has an attribute of that name.
relative_pronoun_raises(entity) ==
    /\ TRUE \in mention_attr(entity, "is_relative_pronoun")
    /\ "head_offsets" \notin MentionAttrs

\* identify_acronyms_or_alternative_names
identify_acronyms_or_alternative_names(entity, candidates) ==
    IF CORRECT_TYPES \cap mention_attr(entity, "entity_type") # {}
    THEN LET P(c) ==
                /\ CORRECT_TYPES \cap mention_attr(c, "entity_type") # {}
                /\ \/ mention_attr(entity, "span") \cap flat_mention_attr(c, "modifiers") # {}
                   \/ mention_attr(c, "span") \cap flat_mention_attr(entity, "modifiers") # {}
         IN  Loop(candidates, {c \in SeqToSet(candidates) : P(c)})
    ELSE [match |-> None, rest |-> candidates]

\* resolve_reflexive_pronoun_structures: the loop over the candidates of the
\* first reflexive mention uses up the generator.
resolve_reflexive_pronoun_structures(entity, candidates) ==
    LET refl == {i \in DOMAIN mentions[entity] :
                    attrs[mentions[entity][i]].is_reflexive_pronoun}
    IN  IF refl = {} THEN [match |-> None, rest |-> candidates]
        ELSE LET mention == attrs[mentions[entity][CHOOSE i \in refl : \A k \in refl : i <= k]]
                 P(c) == \E j \in DOMAIN mentions[c] :
                            LET cand_mention == attrs[mentions[c][j]]
                            IN  /\ cand_mention.sentence_number = mention.sentence_number
                                /\ \A o \in DOMAIN cand_mention.span :
                                      cand_mention.span[o] # mention.head_offset
                                /\ cand_mention.head_offset < mention.head_offset
             IN  Loop(candidates, {c \in SeqToSet(candidates) : P(c)})

\* apply_precise_constructs(entity, candidates, mark_disjoint): the
\* sub-resolvers chained by `or`, all reading the one generator `candidates`.
apply_precise_constructs(entity, candidates) ==
    LET app == identify_appositive_structures(entity, candidates)
        pred == identify_predicative_structures(entity, app.rest)
        acr == identify_acronyms_or_alternative_names(entity, pred.rest)
        refl == resolve_reflexive_pronoun_structures(entity, acr.rest)
    IN  IF app.match # None THEN [match |-> app.match, res |-> "ok"]
        ELSE IF pred.match # None THEN [match |-> pred.match, res |-> "ok"]
        ELSE IF relative_pronoun_raises(entity)
        THEN [match |-> None, res |-> "AttributeError"]
        ELSE IF acr.match # None THEN [match |-> acr.match, res |-> "ok"]
        ELSE [match |-> refl.match, res |-> "ok"]

\* sieve_runner.run(apply_precise_constructs): an exception raised by the
\* sieve ends the pass.
SievePrecise ==
    /\ run.pc = "sieve"
    /\ LET out == apply_precise_constructs(run.cur, run.offered)
       IN  /\ IF out.res = "ok"
              THEN SieveReturnEffect(out.match)
              ELSE /\ run' = Raised
                   /\ UNCHANGED <<mentions, all_entities, contained, disjoint_mentions,
                                  last, marked>>
           /\ result' = Applied("apply_precise_constructs", out.match, out.res)
    /\ UNCHANGED <<head2deps, threads, attrs, offset2string, quotations, nafobj>>

\* A document of names with appositives and modifiers, relative and
\* reflexive pronouns, and the collection from_mentions builds of its
\* mentions.
InitConstructs ==
    /\ CollectionWith(1..(NumMentions - 1))
    /\ head2deps = <<>>
    /\ threads = <<>>
    /\ \E typ \in [MentionIds -> {PyNone, "ORG"}],
          app \in [MentionIds -> {{}, {<<1>>}}],
          mod \in [MentionIds -> {{}, {<<NumMentions>>}}],
          rel \in [MentionIds -> BOOLEAN], refl \in [MentionIds -> BOOLEAN] :
          attrs = [m \in MentionIds |->
                      [PlainMention(m) EXCEPT !.entity_type = typ[m],
                                              !.appositives = app[m],
                                              !.modifiers = mod[m],
                                              !.is_relative_pronoun = rel[m],
                                              !.is_reflexive_pronoun = refl[m]]]
    /\ offset2string = [o \in Offsets |-> "AFP"]
    /\ quotations = <<>>
    /\ nafobj = <<>>
    /\ result = NoResult

NextPrecise ==
    \/ RunStart
    \/ RunNext
    \/ SievePrecise

\* The precise constructs pass of resolve_coreference.
SpecPrecise == InitConstructs /\ [][NextPrecise]_vars

----------------------------------------------------------------------------
(* resolve_coreference.py: speaker_identification, the first pass.  A      *)
(* quotation has a span and three roles, each None or whatever the caller  *)
(* put there: an Entity of the collection, or a mention id as              *)
(* naf_info.identify_direct_quotations stores (NotAnEntity).               *)

NumQuotations == 2

\* What one containing quotation makes the sieve do for `entity`: the values
\* handed to mark_disjoint, in order, and the value of the `return`
\* statement (None where the branch has none).  A role that is None is
\* falsy and is skipped by `if topic:` and its like.
quote_rule(entity, quote) ==
    LET source == quote.source
        addressee == quote.addressee
        topic == quote.topic
    IN  IF "pron" \in mention_attr(entity, "head_pos")
        THEN LET person == mention_attr(entity, "person")
             IN  IF "1" \in person
                 THEN [marks |-> <<topic, addressee>>, ret |-> source]
                 ELSE IF "2" \in person
                 THEN [marks |-> <<source, topic>>, ret |-> addressee]
                 ELSE IF "3" \in person
                 THEN [marks |-> <<source, addressee>>, ret |-> topic]
                 ELSE [marks |-> <<>>, ret |-> None]
        ELSE [marks |-> <<source>>, ret |-> None]

\* One mark_disjoint(target) of the sieve, i.e. Entities.mark_disjoint(
\* entity, target), on the state `st` of the call so far.  A mention id has
\* no mention_attr: AttributeError.
speaker_mark(entity, target, q, st) ==
    IF st.res # "ok" \/ target = None THEN st
    ELSE IF target = NotAnEntity
    THEN [st EXCEPT !.res = "AttributeError", !.bad = target]
    ELSE IF MarkRaises(entity, target)
    THEN [st EXCEPT !.res = "ValueError", !.bad = target]
    ELSE [st EXCEPT !.dm = @ \cup CrossPairs(entity, target),
                    !.marks = @ \cup {<<q, target>>}]

RECURSIVE speaker_marks(_, _, _, _)
speaker_marks(entity, targets, q, st) ==
    IF targets = <<>> THEN st
    ELSE speaker_marks(entity, Tail(targets), q,
                       speaker_mark(entity, Head(targets), q, st))

\* `for quote in quotations:` from quotation q on.  The body returns only
\* where a branch reaches its `return`; otherwise the loop goes on with the
\* next quotation.
RECURSIVE speaker_loop(_, _, _)
speaker_loop(entity, q, st) ==
    IF q > Len(quotations) THEN st
    ELSE LET entity_span == UNION {SeqToSet(attrs[mentions[entity][i]].span) :
                                     i \in DOMAIN mentions[entity]}
         IN  IF ~(entity_span \subseteq quotations[q].span)
             THEN speaker_loop(entity, q + 1, st)
             ELSE LET rule == quote_rule(entity, quotations[q])
                      after == speaker_marks(entity, rule.marks, q, st)
                  IN  IF after.res # "ok" THEN after
                      ELSE IF rule.ret # None
                      THEN [after EXCEPT !.match = rule.ret, !.from = q]
                      ELSE speaker_loop(entity, q + 1, after)

\* speaker_identification(entity, candidates, mark_disjoint, quotations):
\* the disjoint pairs afterwards, the marks made (quotation, target), the
\* value returned and the quotation it came from, or the exception of a
\* mark_disjoint and the value that caused it.
speaker_identification(entity) ==
    speaker_loop(entity, 1, [dm |-> disjoint_mentions, marks |-> {}, match |-> None,
                             from |-> 0, res |-> "ok", bad |-> None])

\* sieve_runner.run(speaker_identification, quotations=quotations)
SieveSpeaker ==
    /\ run.pc = "sieve"
    /\ LET out == speaker_identification(run.cur)
       IN  /\ disjoint_mentions' = out.dm
           /\ IF out.res # "ok"
              THEN /\ run' = Raised
                   /\ Called("mark_disjoint", run.cur, out.bad, out.res)
                   /\ UNCHANGED <<mentions, all_entities, contained>>
                   /\ result' = [fn |-> "speaker_identification", entity |-> run.cur,
                                 marks |-> out.marks, match |-> None, from |-> 0,
                                 res |-> out.res]
              ELSE /\ SieveMerge(out.match)
                   /\ result' = [fn |-> "speaker_identification", entity |-> run.cur,
                                 marks |-> out.marks, match |-> out.match,
                                 from |-> out.from,
                                 res |-> IF out.match = None THEN "ok"
                                         ELSE IF out.match = NotAnEntity THEN "ValueError"
                                         ELSE MergeOutcome(out.match)]
    /\ UNCHANGED <<marked, head2deps, threads, attrs, offset2string, quotations, nafobj>>

\* The quotations of a document: each spans the whole text or its last
\* mention only, and each role is empty, an entity, or a mention id.
Quotations ==
    [span : {Offsets, {NumMentions}},
     source : {None, 1, NotAnEntity},
     addressee : {None, 2},
     topic : {None, 2, NotAnEntity}]

\* A document whose last mention is a noun or a personal pronoun, the
\* collection from_mentions builds of its mentions, and its quotations.
InitQuotations ==
    /\ CollectionWith(1..(NumMentions - 1))
    /\ head2deps = <<>>
    /\ threads = <<>>
    /\ \E person \in {PyNone, "1", "2", "3"} :
          attrs = [m \in MentionIds |->
                      IF m = NumMentions /\ person # PyNone
                      THEN [PlainMention(m) EXCEPT !.head_pos = "pron",
                                                   !.person = person]
                      ELSE PlainMention(m)]
    /\ offset2string = [o \in Offsets |-> "hij"]
    /\ quotations \in UNION {[1..n -> Quotations] : n \in 1..NumQuotations}
    /\ nafobj = <<>>
    /\ result = NoResult

NextSpeaker ==
    \/ RunStart
    \/ RunNext
    \/ SieveSpeaker

\* The speaker identification pass of resolve_coreference.
SpecSpeaker == InitQuotations /\ [][NextSpeaker]_vars

----------------------------------------------------------------------------
(* entity.py: the attribute queries of an Entity, called on their own.     *)

\* The names asked for: two attributes with one value per mention, two with
\* a collection per mention, and the name resolve_relative_pronoun_structures
\* asks for, which no Mention has.
SingletonAttributes == {"entity_type", "head_pos"}
IterableAttributes == {"modifiers", "appositives"}
MissingAttribute == "head_offsets"

\* [getattr(m, attr) for m in ms if hasattr(m, attr)]
RECURSIVE all_answers(_, _)
all_answers(ms, attr) ==
    IF ms = <<>> THEN <<>>
    ELSE IF attr \in DOMAIN attrs[Head(ms)]
    THEN <<attrs[Head(ms)][attr]>> \o all_answers(Tail(ms), attr)
    ELSE all_answers(Tail(ms), attr)

\* Entity.non_unique_mention_attr(attr): the values of the mentions that
\* have the attribute, None included, or AttributeError when there is none.
non_unique_mention_attr(entity, attr) ==
    IF all_answers(mentions[entity], attr) = <<>>
    THEN [res |-> "AttributeError", value |-> <<>>]
    ELSE [res |-> "ok", value |-> all_answers(mentions[entity], attr)]

\* entity.mention_attr(attr): set(self.non_unique_mention_attr(attr))
MentionAttr(entity, attr) ==
    /\ run.pc = "idle"
    /\ entity \in Ents
    /\ attr \in SingletonAttributes \cup {MissingAttribute}
    /\ LET got == non_unique_mention_attr(entity, attr)
       IN  result' = [fn |-> "mention_attr", entity |-> entity, attr |-> attr,
                      res |-> got.res, value |-> SeqToSet(got.value)]
    /\ UNCHANGED <<collection, head2deps, threads, attrs, offset2string, quotations, nafobj>>

\* entity.flat_mention_attr(attr): the elements of the values of
\* self.non_unique_mention_attr(attr)
FlatMentionAttr(entity, attr) ==
    /\ run.pc = "idle"
    /\ entity \in Ents
    /\ attr \in IterableAttributes \cup {MissingAttribute}
    /\ LET got == non_unique_mention_attr(entity, attr)
       IN  result' = [fn |-> "flat_mention_attr", entity |-> entity, attr |-> attr,
                      res |-> got.res, value |-> UNION SeqToSet(got.value)]
    /\ UNCHANGED <<collection, head2deps, threads, attrs, offset2string, quotations, nafobj>>

\* Entities of mentions with and without an entity type, a pronoun head and
\* modifiers.
InitAttributes ==
    /\ \E cuts \in SUBSET (1..(NumMentions - 1)) : CollectionWith(cuts)
    /\ head2deps = <<>>
    /\ threads = <<>>
    /\ \E etype \in [MentionIds -> {PyNone, "PER", "ORG"}],
          pos \in [MentionIds -> {PyNone, "name"}],
          mods \in [MentionIds -> {{}, {<<1>>}}] :
          attrs = [m \in MentionIds |->
                      [PlainMention(m) EXCEPT !.entity_type = etype[m],
                                              !.head_pos = pos[m],
                                              !.modifiers = mods[m]]]
    /\ offset2string = [o \in Offsets |-> "AFP"]
    /\ quotations = <<>>
    /\ nafobj = <<>>
    /\ result = NoResult

NextAttributes ==
    \/ \E e \in Ents, attr \in SingletonAttributes \cup {MissingAttribute} :
          MentionAttr(e, attr)
    \/ \E e \in Ents, attr \in IterableAttributes \cup {MissingAttribute} :
          FlatMentionAttr(e, attr)

\* The attribute queries on the entities of a collection.
SpecAttributes == InitAttributes /\ [][NextAttributes]_vars

----------------------------------------------------------------------------
(* filters.py: the predicates on a Mention and on an Entity.               *)

NOMINAL_POSES == {"name", "noun"}

\* The predicates on a single mention.
is_nominal(mention) == attrs[mention].head_pos \in NOMINAL_POSES

is_named_entity(mention) == attrs[mention].entity_type # PyNone

is_proper_noun(mention) == attrs[mention].entity_type \in CORRECT_TYPES

is_pronoun(mention) == attrs[mention].head_pos = "pron"

\* `for func in [is_nominal, is_named_entity, is_proper_noun, is_pronoun]`
Filters == <<"is_nominal", "is_named_entity", "is_proper_noun", "is_pronoun">>

\* The module-level name `func` once the loop has ended: its last value.
func == Filters[Len(Filters)]

\* Calling the function named f on a mention.
on_mention(f, mention) ==
    CASE f = "is_nominal" -> is_nominal(mention)
      [] f = "is_named_entity" -> is_named_entity(mention)
      [] f = "is_proper_noun" -> is_proper_noun(mention)
      [] f = "is_pronoun" -> is_pronoun(mention)

\* The function registered for Entity on the filter named f:
\* `any(map(func, entity))`, where `func` is looked up when the function
\* runs.
on_entity(f, entity) ==
    \E i \in DOMAIN mentions[entity] : on_mention(func, mentions[entity][i])

\* A filter called on an entity.
Filter(f, entity) ==
    /\ run.pc = "idle"
    /\ entity \in Ents
    /\ f \in SeqToSet(Filters)
    /\ result' = [fn |-> f, entity |-> entity, value |-> on_entity(f, entity)]
    /\ UNCHANGED <<collection, head2deps, threads, attrs, offset2string, quotations, nafobj>>

\* Entities of nouns, names and pronouns, with and without an entity type.
InitFilters ==
    /\ \E cuts \in SUBSET (1..(NumMentions - 1)) : CollectionWith(cuts)
    /\ head2deps = <<>>
    /\ threads = <<>>
    /\ \E etype \in [MentionIds -> {PyNone, "PER", "DATE"}],
          pos \in [MentionIds -> {"noun", "name", "pron"}] :
          attrs = [m \in MentionIds |->
                      [PlainMention(m) EXCEPT !.entity_type = etype[m],
                                              !.head_pos = pos[m]]]
    /\ offset2string = [o \in Offsets |-> "AFP"]
    /\ quotations = <<>>
    /\ nafobj = <<>>
    /\ result = NoResult

NextFilters == \E f \in SeqToSet(Filters), e \in Ents : Filter(f, e)

\* The filters on the entities of a collection.
SpecFilters == InitFilters /\ [][NextFilters]_vars

----------------------------------------------------------------------------
(* constraints.py: check_not_i_within_i on two mentions (the function of   *)
(* the same name in resolve_coreference.py has the same body).             *)

MaxOffset == 3

\* A check that takes touching borders for not contained.
check_not_i_within_i_or_equal(antecedent_mention, mention) ==
    LET boffset1 == attrs[antecedent_mention].begin_offset
        eoffset1 == attrs[antecedent_mention].end_offset
        boffset2 == attrs[mention].begin_offset
        eoffset2 == attrs[mention].end_offset
    IN  \/ (boffset2 >= boffset1 /\ eoffset2 >= eoffset1)
        \/ (eoffset1 >= eoffset2 /\ boffset1 >= boffset2)

\* A check that looks only for the mention lying to the right.
check_not_i_within_i_one_way(antecedent_mention, mention) ==
    LET boffset1 == attrs[antecedent_mention].begin_offset
        eoffset1 == attrs[antecedent_mention].end_offset
        boffset2 == attrs[mention].begin_offset
        eoffset2 == attrs[mention].end_offset
    IN  boffset2 > boffset1 /\ eoffset2 > eoffset1

\* check_not_i_within_i(antecedent_mention, mention)
check_not_i_within_i(antecedent_mention, mention) ==
    LET boffset1 == attrs[antecedent_mention].begin_offset
        eoffset1 == attrs[antecedent_mention].end_offset
        boffset2 == attrs[mention].begin_offset
        eoffset2 == attrs[mention].end_offset
    IN  \/ (boffset2 > boffset1 /\ eoffset2 > eoffset1)
        \/ (eoffset1 > eoffset2 /\ boffset1 > boffset2)

\* The check called on two mentions.
CheckNotIWithinI(antecedent_mention, mention) ==
    /\ run.pc = "idle"
    /\ antecedent_mention \in MentionIds /\ mention \in MentionIds
    /\ result' = [fn |-> "check_not_i_within_i", antecedent |-> antecedent_mention,
                  mention |-> mention,
                  value |-> check_not_i_within_i(antecedent_mention, mention)]
    /\ UNCHANGED <<collection, head2deps, threads, attrs, offset2string, quotations, nafobj>>

\* Mentions with any integer begin and end offsets.
InitOffsets ==
    /\ CollectionWith(1..(NumMentions - 1))
    /\ head2deps = <<>>
    /\ threads = <<>>
    /\ \E b \in [MentionIds -> 0..MaxOffset], e \in [MentionIds -> 0..MaxOffset] :
          attrs = [m \in MentionIds |->
                      [PlainMention(m) EXCEPT !.begin_offset = b[m],
                                              !.end_offset = e[m]]]
    /\ offset2string = [o \in Offsets |-> "AFP"]
    /\ quotations = <<>>
    /\ nafobj = <<>>
    /\ result = NoResult

NextOffsets == \E a \in MentionIds, m \in MentionIds : CheckNotIWithinI(a, m)

\* The i-within-i check on the mentions of a document.
SpecOffsets == InitOffsets /\ [][NextOffsets]_vars

----------------------------------------------------------------------------
(* resolve_coreference.py: apply_strict_head_match, sieves 5, 6 and 7.     *)

StrictSieves == {"5", "6", "7"}

\* What the body of `for antecedent in candidates` does for one mention of
\* the entity and one antecedent: go on with the next antecedent, return
\* the antecedent, or raise.  Unless the sieve is '7', a head match leads to
\* the call check_word_inclusion(antecedent, entity) of the function of
\* this module, which reads the name offset2string that is neither its
\* parameter nor a module-level name: NameError.  After a mention pair has
\* passed check_not_i_within_i, every sieve but '6' reads
\* antecedent.main_modifiers of the Entity `antecedent`.
strict_head_step(mention, antecedent, sieve) ==
    LET head_word == offset2string[attrs[mention].head_offset]
        antecedent_head_words ==
            {offset2string[o] : o \in mention_attr(antecedent, "head_offset")}
        passing == {i \in DOMAIN mentions[antecedent] :
                       check_not_i_within_i(mentions[antecedent][i], mention)}
    IN  IF head_word \notin antecedent_head_words THEN "next"
        ELSE IF sieve # "7" THEN "NameError"
        ELSE IF passing = {} THEN "next"
        ELSE IF sieve = "6" THEN "return"
        ELSE IF "main_modifiers" \notin EntityAttrs THEN "AttributeError"
        ELSE "return"

\* apply_strict_head_match(entity, candidates, mark_disjoint, offset2string,
\* sieve): `candidates` is a generator, so the first mention of the entity
\* that is no pronoun is the only one that meets the candidates.
apply_strict_head_match(entity, candidates, sieve) ==
    LET nominal == {i \in DOMAIN mentions[entity] :
                       attrs[mentions[entity][i]].head_pos # "pron"}
    IN  IF nominal = {} THEN [match |-> None, res |-> "ok"]
        ELSE LET mention == mentions[entity][CHOOSE i \in nominal :
                                                \A k \in nominal : i <= k]
                 hits == {j \in DOMAIN candidates :
                             strict_head_step(mention, candidates[j], sieve) # "next"}
             IN  IF hits = {} THEN [match |-> None, res |-> "ok"]
                 ELSE LET j == CHOOSE h \in hits : \A k \in hits : h <= k
                          step == strict_head_step(mention, candidates[j], sieve)
                      IN  IF step = "return"
                          THEN [match |-> candidates[j], res |-> "ok"]
                          ELSE [match |-> None, res |-> step]

\* sieve_runner.run(apply_strict_head_match, offset2string=offset2string,
\* sieve=sieve)
SieveStrictHead(sieve) ==
    /\ run.pc = "sieve"
    /\ sieve \in StrictSieves
    /\ LET out == apply_strict_head_match(run.cur, run.offered, sieve)
       IN  /\ IF out.res = "ok"
              THEN SieveReturnEffect(out.match)
              ELSE /\ run' = Raised
                   /\ UNCHANGED <<mentions, all_entities, contained, disjoint_mentions,
                                  last, marked>>
           /\ result' = [fn |-> "apply_strict_head_match", entity |-> run.cur,
                         sieve |-> sieve, match |-> out.match, res |-> out.res]
    /\ UNCHANGED <<head2deps, threads, attrs, offset2string, quotations, nafobj>>

\* A document of nouns and pronouns, the first mention short or reaching
\* over the others, and the collection from_mentions builds of its mentions.
InitStrictHead ==
    /\ CollectionWith(1..(NumMentions - 1))
    /\ head2deps = <<>>
    /\ threads = <<>>
    /\ \E pos \in [MentionIds -> {"noun", "pron"}],
          long \in BOOLEAN,
          words \in [MentionIds -> BOOLEAN] :
          attrs = [m \in MentionIds |->
                      [PlainMention(m) EXCEPT
                          !.head_pos = pos[m],
                          !.end_offset = IF m = 1 /\ long THEN NumMentions + 1 ELSE m + 1,
                          !.non_stopwords = IF words[m] THEN {m} ELSE {},
                          !.main_modifiers = IF words[m] THEN {m} ELSE {}]]
    /\ offset2string \in [Offsets -> {"Jan", "AFP"}]
    /\ quotations = <<>>
    /\ nafobj = <<>>
    /\ result = NoResult

NextStrictHead ==
    \/ RunStart
    \/ RunNext
    \/ \E sieve \in StrictSieves : SieveStrictHead(sieve)

\* The strict head match passes of resolve_coreference.
SpecStrictHead == InitStrictHead /\ [][NextStrictHead]_vars

----------------------------------------------------------------------------
(* resolve_coreference.py: post_process, the last step of the pipeline.    *)

\* Mention.fill_gaps(full_content) for the offsets 1..NumMentions in
\* document order and a span in ascending order: the span becomes the
\* stretch of the document from its first to its last offset.
fill_gaps(span) ==
    IF Len(span) >= 2
    THEN [i \in 1..(span[Len(span)] - span[1] + 1) |-> span[1] + i - 1]
    ELSE span

\* remove_singleton_entities(entities): `for entity in entities` visits the
\* members; `len(entity)` needs Entity.__len__, otherwise the first entity
\* visited raises TypeError.
remove_singleton_entities_raises ==
    IterAll # <<>> /\ "__len__" \notin EntityAttrs

\* The members remove_singleton_entities removes when it does not raise.
Singletons == {e \in DOMAIN contained : Len(mentions[e]) < 2}

\* post_process(nafobj, entities, fill_gaps, include_singletons)
PostProcess(fill, include_singletons) ==
    /\ run.pc = "idle"
    /\ result = NoResult
    /\ attrs' = IF fill
                THEN [m \in MentionIds |-> [attrs[m] EXCEPT !.span = fill_gaps(@)]]
                ELSE attrs
    /\ IF include_singletons \/ remove_singleton_entities_raises
       THEN UNCHANGED <<all_entities, contained>>
       ELSE /\ all_entities' = [k \in DOMAIN all_entities |->
                                   IF all_entities[k] \in Singletons THEN None
                                   ELSE all_entities[k]]
            /\ contained' = [k \in DOMAIN contained \ Singletons |-> contained[k]]
    /\ result' = [fn |-> "post_process", include_singletons |-> include_singletons,
                  before |-> IterAll,
                  res |-> IF ~include_singletons /\ remove_singleton_entities_raises
                          THEN "TypeError" ELSE "ok"]
    /\ UNCHANGED <<mentions, disjoint_mentions, last, marked, run, head2deps, threads,
                   offset2string, quotations, nafobj>>

\* A collection of entities; the first mention's span may have a gap.
InitPostProcess ==
    /\ \E cuts \in SUBSET (1..(NumMentions - 1)) : CollectionWith(cuts)
    /\ head2deps = <<>>
    /\ threads = <<>>
    /\ \E gap \in BOOLEAN :
          attrs = [m \in MentionIds |->
                      IF m = 1 /\ gap
                      THEN [PlainMention(m) EXCEPT !.span = <<1, NumMentions>>]
                      ELSE PlainMention(m)]
    /\ offset2string = [o \in Offsets |-> "AFP"]
    /\ quotations = <<>>
    /\ nafobj = <<>>
    /\ result = NoResult

\* Entities are removed and added again, then the result is post-processed.
NextPostProcess ==
    \/ \E e \in Ents : result = NoResult /\ Remove(e)
    \/ \E e \in Ents : result = NoResult /\ Add(e)
    \/ \E fill \in BOOLEAN, include_singletons \in BOOLEAN :
          PostProcess(fill, include_singletons)

SpecPostProcess == InitPostProcess /\ [][NextPostProcess]_vars

----------------------------------------------------------------------------
(* entity.py: Entity.__init__ among merges and sieve passes.               *)

\* An Entity constructor that accepts anything.
EntityInitAccepts(ms) == FALSE

\* `if not self.mentions: raise ValueError`
EntityInitRaises(ms) == ms = <<>>

\* e = Entity(ms), e being an object that does not exist yet.
NewEntity(e, ms) ==
    /\ UNCHANGED others
    /\ run.pc = "idle"
    /\ e \in Ents \ Objs
    /\ ms \in MentionLists /\ Len(ms) <= MaxEntityLen
    /\ mentions' = IF EntityInitRaises(ms) THEN mentions
                   ELSE [mentions EXCEPT ![e] = ms]
    /\ last' = [op |-> "Entity", a |-> e, b |-> ms, am |-> FALSE,
                res |-> IF EntityInitRaises(ms) THEN "ValueError" ELSE "ok",
                tick |-> 1 - last.tick]
    /\ UNCHANGED <<all_entities, contained, disjoint_mentions, marked, run>>

NextEntity ==
    \/ \E e \in Ents, ms \in MentionLists : NewEntity(e, ms)
    \/ \E a \in Ents, b \in Ents : EntityMerge(a, b)
    \/ \E a \in Ents, b \in Ents : Merge(a, b)
    \/ RunStart
    \/ RunNext
    \/ \E m \in Ents \cup {None} : SieveReturn(m)

\* Entities constructed, merged and run through sieve passes.
SpecEntity == Init /\ [][NextEntity]_vars

----------------------------------------------------------------------------
(* entities.py: the default_filter of Entities.__init__ in get_candidates. *)

\* A filter is the set of the entities it accepts; NoFilter stands for the
\* argument None.
NoFilter == [given |-> FALSE, accepts |-> {}]

GivenFilter(F) == [given |-> TRUE, accepts |-> F]

\* self.default_filter as __init__ sets it:
\* `lambda x: True if default_filter is None else default_filter`.  The
\* conditional expression is the body of the lambda, so a call returns True
\* or the function object default_filter, which is truthy; the entities x
\* for which self.default_filter(x) is truthy.
default_filter(given_filter) == Objs

\* get_candidates(entity) with entity_filter=None on a collection that was
\* constructed with default_filter=given_filter.
GetCandidates(entity, given_filter) ==
    /\ run.pc = "idle"
    /\ result = NoResult
    /\ entity \in Objs
    /\ result' = IF Contains(entity)
                 THEN [fn |-> "get_candidates", entity |-> entity,
                       default_filter |-> given_filter, res |-> "ok",
                       value |-> get_candidates(entity, default_filter(given_filter))]
                 ELSE [fn |-> "get_candidates", entity |-> entity,
                       default_filter |-> given_filter, res |-> "ValueError",
                       value |-> <<>>]
    /\ UNCHANGED <<collection, head2deps, threads, attrs, offset2string, quotations, nafobj>>

\* Entities are marked disjoint and removed, then the candidates of one are
\* asked for.
NextCandidates ==
    \/ \E a \in Ents, b \in Ents : result = NoResult /\ MarkDisjointPlain(a, b)
    \/ \E e \in Ents : result = NoResult /\ Remove(e)
    \/ \E e \in Ents, F \in SUBSET Ents : GetCandidates(e, GivenFilter(F))
    \/ \E e \in Ents : GetCandidates(e, NoFilter)

SpecCandidates == Init /\ [][NextCandidates]_vars

----------------------------------------------------------------------------
(* sieve_runner.py: passes with a sieve that returns None or one of the    *)
(* candidates it was offered, on collections that have seen removals and   *)
(* disjointness marks.                                                     *)

NextPass ==
    \/ \E e \in Ents : Remove(e)
    \/ \E a \in Ents, b \in Ents : MarkDisjointPlain(a, b)
    \/ RunStart
    \/ RunNext
    \/ \E m \in SeqToSet(run.offered) \cup {None} : SieveReturn(m)

SpecPass == Init /\ [][NextPass]_vars

----------------------------------------------------------------------------
(* offset_info.py: the offsets of a span of terms.  The token layer gives  *)
(* every token its character offset and length; a term spans one or more   *)
(* tokens; terms and tokens come in the order of the text.  nafobj holds   *)
(* the term layer (for every term its tokens) and the entity layer.        *)

TokenLengths == {1, 2}
TokenGaps == {0, 1}
TokensPerTerm == {1, 2}

\* The shape of a term: for each of its tokens the length and the number of
\* characters between it and the token before.
TermShapes ==
    UNION {[1..n -> [length : TokenLengths, gap : TokenGaps]] : n \in TokensPerTerm}

RECURSIVE Width(_)
Width(tokens) ==
    IF tokens = <<>> THEN 0
    ELSE Head(tokens).gap + Head(tokens).length + Width(Tail(tokens))

\* The tokens of one term laid out in the text from character `at` on.
RECURSIVE Place(_, _)
Place(tokens, at) ==
    IF tokens = <<>> THEN <<>>
    ELSE <<[offset |-> at + Head(tokens).gap, length |-> Head(tokens).length]>>
         \o Place(Tail(tokens), at + Head(tokens).gap + Head(tokens).length)

RECURSIVE TextBefore(_, _)
TextBefore(shape, t) ==
    IF t = 1 THEN 0 ELSE TextBefore(shape, t - 1) + Width(shape[t - 1])

\* The term and token layers of a text whose terms have the given shapes:
\* for every term its tokens, each with offset and length.
Document(shape) == [t \in Terms |-> Place(shape[t], TextBefore(shape, t))]

Min(S) == CHOOSE x \in S : \A y \in S : x <= y

\* offset_info.get_offset(nafobj, term_id)
get_offset(term_id) ==
    Min({nafobj.terms[term_id][i].offset : i \in DOMAIN nafobj.terms[term_id]})

\* The loop of get_term_length over the tokens left, with the values of
\* `length` and `expected_offset` so far.
RECURSIVE term_length_loop(_, _, _)
term_length_loop(tokens, length, expected_offset) ==
    IF tokens = <<>> THEN length
    ELSE LET offset == Head(tokens).offset
             token_length == Head(tokens).length
         IN  term_length_loop(
                 Tail(tokens),
                 length + token_length
                     + (IF expected_offset # 0 /\ expected_offset # offset
                        THEN offset - expected_offset ELSE 0),
                 offset + token_length)

\* offset_info.get_term_length(nafobj, term_id)
get_term_length(term_id) == term_length_loop(nafobj.terms[term_id], 0, 0)

\* offset_info.get_offsets_from_span(nafobj, span): begin_offset and
\* end_offset are both taken with min.
get_offsets_from_span(span) ==
    LET begin_offsets == {get_offset(span[i]) : i \in DOMAIN span}
        end_offsets == {get_offset(span[i]) + get_term_length(span[i]) : i \in DOMAIN span}
    IN  [begin_offset |-> IF Len(span) # 0 THEN Min(begin_offsets) ELSE 0,
         end_offset |-> IF Len(span) # 0 THEN Min(end_offsets) ELSE 0]

\* begin_offset, end_offset = get_offsets_from_span(nafobj, span_ids), as
\* Mention.from_naf calls it on the terms of a constituent.
GetOffsetsFromSpan(span) ==
    /\ run.pc = "idle"
    /\ \E S \in SUBSET Terms : span = Ascending(S)
    /\ result' = [fn |-> "get_offsets_from_span", span |-> span,
                  value |-> get_offsets_from_span(span)]
    /\ UNCHANGED <<collection, head2deps, threads, attrs, offset2string, quotations, nafobj>>

InitDocument ==
    /\ CollectionWith(1..(NumMentions - 1))
    /\ head2deps = <<>>
    /\ threads = <<>>
    /\ attrs = [m \in MentionIds |-> PlainMention(m)]
    /\ offset2string = [o \in Offsets |-> "AFP"]
    /\ quotations = <<>>
    /\ \E shape \in [Terms -> TermShapes] : nafobj = [terms |-> Document(shape), entities |-> <<>>]
    /\ result = NoResult

NextDocument == \E S \in SUBSET Terms : GetOffsetsFromSpan(Ascending(S))

\* The offsets of the spans of a document.
SpecDocument == InitDocument /\ [][NextDocument]_vars

----------------------------------------------------------------------------
(* constituent.py, constituent_info.py: the named entities of the entity   *)
(* layer.  The layer is read as the sequence of its references, each with  *)
(* the type of its entity and the set of terms of its span.                *)

MaxRefs == 3
EntityTypes == {"PER", "ORG"}
Spans == (SUBSET Terms) \ {{}}
References == UNION {[1..n -> [type : EntityTypes, span : Spans]] : n \in 0..MaxRefs}

\* One round of the loop that keeps every recorded span and deletes none.
named_entities_step_keep(entities, ref) ==
    IF \E i \in DOMAIN entities : ref.span \subseteq entities[i].span
    THEN entities
    ELSE Append(entities, ref)

\* One round of the loop over the references: `entities` is the dict, in
\* insertion order, of the spans recorded so far.
named_entities_step(entities, ref) ==
    IF \E i \in DOMAIN entities : ref.span \subseteq entities[i].span
    THEN entities
    ELSE Append(SelectSeq(entities,
                          LAMBDA other : ~(other.span \subseteq ref.span
                                           /\ other.span # ref.span)),
                ref)

RECURSIVE named_entities_loop(_, _)
named_entities_loop(entities, refs) ==
    IF refs = <<>> THEN entities
    ELSE named_entities_loop(named_entities_step(entities, Head(refs)), Tail(refs))

\* get_named_entities(nafobj): list(entities.values()), each value with the
\* span it was recorded under.
get_named_entities == named_entities_loop(<<>>, nafobj.entities)

GetNamedEntities ==
    /\ run.pc = "idle"
    /\ result = NoResult
    /\ result' = [fn |-> "get_named_entities", value |-> get_named_entities]
    /\ UNCHANGED <<collection, head2deps, threads, attrs, offset2string, quotations, nafobj>>

InitNamedEntities ==
    /\ CollectionWith(1..(NumMentions - 1))
    /\ head2deps = <<>>
    /\ threads = <<>>
    /\ attrs = [m \in MentionIds |-> PlainMention(m)]
    /\ offset2string = [o \in Offsets |-> "AFP"]
    /\ quotations = <<>>
    /\ \E refs \in References : nafobj = [terms |-> <<>>, entities |-> refs]
    /\ result = NoResult

NextNamedEntities == GetNamedEntities

\* The named entities of a document's entity layer.
SpecNamedEntities == InitNamedEntities /\ [][NextNamedEntities]_vars

Next ==
    \/ \E e \in Ents : Add(e)
    \/ \E e \in Ents : Remove(e)
    \/ \E e \in Ents : Discard(e)
    \/ \E a \in Ents, b \in Ents : MarkDisjointPlain(a, b)
    \/ \E a \in Ents, b \in Ents : Merge(a, b)

\* The collection under any sequence of calls of its operations.
Spec == Init /\ [][Next]_vars

NextDisjoint ==
    \/ \E a \in Ents, b \in Ents : MarkDisjointRemembered(a, b)
    \/ \E a \in Ents, b \in Ents : Merge(a, b)
    \/ \E a \in Ents, b \in Ents : EntityMerge(a, b)

\* Marking entities disjoint and growing entities, with the marks remembered.
SpecDisjoint == Init /\ [][NextDisjoint]_vars

\* Entities.merge called with two members (tests/test_entities.py,
\* test_merge).
MergeMembers(keep, other) ==
    Contains(keep) /\ Contains(other) /\ Merge(keep, other)

\* Entity._merge called on a member with itself: the same list object.
EntityMergeSelf(e) ==
    /\ UNCHANGED others
    /\ run.pc = "idle"
    /\ Contains(e)
    /\ mentions' = Entity_merge(e, e)
    /\ UNCHANGED <<all_entities, contained, disjoint_mentions, last, marked, run>>

NextMerge ==
    \/ \E a \in Ents, b \in Ents : MergeMembers(a, b)
    \/ \E e \in Ents : EntityMergeSelf(e)
    \/ \E a \in Ents, b \in Ents : MarkDisjointPlain(a, b)

\* Sequences of merges of members and of an entity with itself (and of
\* marks, which touch no entity).
SpecMerge == Init /\ [][NextMerge]_vars

NextOrder ==
    \/ \E e \in Ents : Remove(e)
    \/ \E e \in Ents : Discard(e)
    \/ \E a \in Ents, b \in Ents : Merge(a, b)

\* The collection under remove, discard and merge, without add.
SpecOrder == Init /\ [][NextOrder]_vars

----------------------------------------------------------------------------
(* Claims *)

\* The members of the collection.
Members == DOMAIN contained

Position(e) == CHOOSE i \in 0..(Len(all_entities) - 1) : all_entities[i + 1] = e

\* C3: for every member e and every filter F, get_candidates(e, F) holds
\* exactly the members placed before e that F accepts and that share no
\* disjoint id pair with e, in collection order; so never e itself, all of
\* entities_before(e) when nothing is disjoint and nothing is filtered, and
\* nothing for the filter that rejects everything.
C3_CandidatesExact ==
    \A e \in Members : \A F \in SUBSET Objs :
        LET c == get_candidates(e, F)
            expected == {x \in Members \cap F :
                            /\ Position(x) < Position(e)
                            /\ \A a \in mention_attr_id(e), b \in mention_attr_id(x) :
                                  {a, b} \notin disjoint_mentions}
        IN  /\ SeqToSet(c) = expected
            /\ Len(c) = Cardinality(expected)
            /\ \A i \in DOMAIN c, j \in DOMAIN c :
                  i < j => Position(c[i]) < Position(c[j])
            /\ e \notin SeqToSet(c)
            /\ (F = Objs /\ disjoint_mentions = {}) => c = entities_before(e)
            /\ F = {} => c = <<>>

\* C3 witness: a member with a removed slot and two members before it, one
\* of which is excluded by a disjointness constraint and the other offered.
C3_Witness ==
    \E e \in Members : \E x \in Members, y \in Members :
        /\ x # y
        /\ Position(x) < Position(e) /\ Position(y) < Position(e)
        /\ \E i \in 1..Position(e) : all_entities[i] = None
        /\ ~merge_allowed(e, x)
        /\ get_candidates(e, Objs) = <<y>>

\* C8: the index and the backing sequence agree: iterating yields exactly
\* the entities that are contained, each once, and len() is the number of
\* entities iterated, i.e. of slots that are not None.
C8_IndexMatchesSequence ==
    /\ SeqToSet(IterAll) = {e \in Objs : Contains(e)}
    /\ Length = Len(IterAll)
    /\ Length = Cardinality({i \in DOMAIN all_entities : all_entities[i] # None})
    /\ \A e \in Members : all_entities[contained[e] + 1] = e

\* C8 witness: after removals and an add, a removed slot lies between
\* members and a once removed entity is a member again, at the end.
C8_Witness ==
    /\ last.op = "add"
    /\ Length >= 2
    /\ Length < Len(all_entities)
    /\ \E i \in DOMAIN all_entities :
          /\ all_entities[i] = None
          /\ \E j \in DOMAIN all_entities : j < i /\ all_entities[j] # None
    /\ all_entities[Len(all_entities)] = last.a

\* C4: after merge(e1, e2) with e1 a member, the call has returned e1, e1 is
\* still a member, e2 is not a member unless it is e1 itself, and every
\* mention of e2 is in e1.
C4_MergeKeepsAndDiscards ==
    (last.op = "merge" /\ last.am) =>
        /\ last.res = "ok"
        /\ Contains(last.a)
        /\ (last.a # last.b => ~Contains(last.b))
        /\ mention_attr_id(last.b) \subseteq mention_attr_id(last.a)

\* A step that is a call of Entities.merge.
MergeCall == last'.op = "merge" /\ last'.tick # last.tick

\* merge refuses an entity_to_keep that is not a member with ValueError and
\* changes nothing.
MergeRefusesNonMember ==
    [][(MergeCall /\ ~Contains(last'.a)) =>
          /\ last'.res = "ValueError"
          /\ UNCHANGED <<mentions, all_entities, contained, disjoint_mentions>>]_vars

\* C6: merge(entity_to_keep, other) raises ValueError and changes nothing
\* whenever entity_to_keep is not a member; in particular merge(e2, e1) right
\* after merge(e1, e2) of a member e1 with a distinct e2 raises ValueError,
\* and so does merge(e1, e2) right after remove(e1).
C6_MergeRefusesForeign ==
    [][MergeCall =>
          /\ ~Contains(last'.a) =>
                /\ last'.res = "ValueError"
                /\ UNCHANGED <<mentions, all_entities, contained, disjoint_mentions>>
          /\ (/\ last.op = "merge" /\ last.am /\ last.a # last.b
              /\ last'.a = last.b /\ last'.b = last.a) => last'.res = "ValueError"
          /\ (last.op = "remove" /\ last.res = "ok" /\ last'.a = last.a) =>
                last'.res = "ValueError"]_vars

\* C7: merge(e1, e2) called again right after merge(e1, e2) of a member e1
\* with a distinct e2 succeeds and leaves the membership, the order and the
\* set of mention ids of e1 as they were.
C7_MergeAgain ==
    [][(/\ MergeCall
        /\ last.op = "merge" /\ last.am /\ last.a # last.b
        /\ last'.a = last.a /\ last'.b = last.b) =>
          /\ last'.res = "ok"
          /\ UNCHANGED <<all_entities, contained>>
          /\ {mentions'[last.a][i] : i \in DOMAIN mentions'[last.a]}
                = mention_attr_id(last.a)]_vars

\* How often mention id m occurs in entity e.
Occurrences(m, e) == Cardinality({i \in DOMAIN mentions[e] : mentions[e][i] = m})

C9_OrderStable ==
    /\ \A i \in DOMAIN IterAll :
          /\ entities_before(IterAll[i]) = SubSeq(IterAll, 1, i - 1)
          /\ IterAll[i] \notin SeqToSet(entities_before(IterAll[i]))
    /\ \A e \in Members : contained[e] = e - 1
    /\ \A i \in DOMAIN IterAll, j \in DOMAIN IterAll :
          i < j => IterAll[i] < IterAll[j]

\* C9 witness: a member follows a removed slot that follows a member, and
\* merge has just been called to keep the later one.
C9_Witness ==
    /\ last.op = "merge" /\ last.am
    /\ \E i \in DOMAIN all_entities :
          /\ all_entities[i] = None
          /\ \E j \in DOMAIN all_entities : j < i /\ all_entities[j] # None
          /\ \E j \in DOMAIN all_entities : j > i /\ all_entities[j] = last.a

\* C10: when the sieve returns one of the candidates it was offered, the
\* runner's merge completes at once: the candidate is kept and holds the
\* mentions of the current entity, which is no longer a member; and the
\* candidates offered are members placed strictly before the current entity.
C10_MergedAtOnce ==
    /\ run.pc = "sieve" =>
          \A i \in DOMAIN run.offered :
              Position(run.offered[i]) < Position(run.cur)
    /\ (/\ last.op = "merge" /\ last.b = run.cur
        /\ last.a \in SeqToSet(run.offered)) =>
          /\ last.res = "ok"
          /\ run.status = "running"
          /\ Contains(last.a)
          /\ ~Contains(last.b)
          /\ mention_attr_id(last.b) \subseteq mention_attr_id(last.a)

\* A step that is a call of Entities.mark_disjoint.
MarkCall == last'.op = "mark_disjoint" /\ last'.tick # last.tick

\* The members hold pairwise distinct mention ids: they are separate
\* entities.
Separate ==
    \A x \in Members, y \in Members :
        x # y => mention_attr_id(x) \cap mention_attr_id(y) = {}

\* C11: mark_disjoint(a, b) raises ValueError and adds nothing whenever a
\* and b share a mention id, so always for mark_disjoint(a, a); when they
\* share none it succeeds, and in a collection of separate entities that
\* satisfied its constraints, with a and b members, the constraints stay
\* satisfied.
C11_MarkDisjointValidates ==
    [][MarkCall =>
          LET a == last'.a
              b == last'.b
              shared == mention_attr_id(a) \cap mention_attr_id(b)
          IN  /\ a = b => shared # {}
              /\ shared # {} =>
                    /\ last'.res = "ValueError"
                    /\ UNCHANGED disjoint_mentions
              /\ shared = {} =>
                    /\ last'.res = "ok"
                    /\ \A x \in mention_attr_id(a), y \in mention_attr_id(b) :
                          {x, y} \in disjoint_mentions'
              /\ (/\ shared = {} /\ Separate /\ Contains(a) /\ Contains(b)
                  /\ disjointness_constraints_satisfied) =>
                    disjointness_constraints_satisfied']_vars

\* C11 witness: with constraints already in place, mark_disjoint has just
\* been refused for two distinct entities that share a mention id.
C11_Witness ==
    /\ last.op = "mark_disjoint" /\ last.res = "ValueError"
    /\ last.a # last.b
    /\ mention_attr_id(last.a) \cap mention_attr_id(last.b) # {}
    /\ disjoint_mentions # {}

\* A step that is a call of Entities.from_mentions.
FromMentionsCall == last'.op = "from_mentions" /\ last'.tick # last.tick

\* C12: from_mentions(ms) succeeds iff the ids of ms are pairwise distinct;
\* the collection built iterates one entity per mention, the i-th holding
\* exactly the i-th mention; with a repeated id it raises ValueError and no
\* collection is built.
C12_FromMentionsSingletons ==
    [][FromMentionsCall =>
          LET ms == last'.a
              distinct == \A i \in DOMAIN ms, j \in DOMAIN ms : i # j => ms[i] # ms[j]
          IN  /\ last'.res = "ok" <=> distinct
              /\ last'.res = "ok" =>
                    /\ Len(IterAll') = Len(ms)
                    /\ \A i \in DOMAIN ms : mentions'[(IterAll')[i]] = <<ms[i]>>
                    /\ \A i \in DOMAIN ms, j \in DOMAIN ms :
                          i # j => (IterAll')[i] # (IterAll')[j]
              /\ last'.res # "ok" =>
                    /\ last'.res = "ValueError"
                    /\ UNCHANGED <<mentions, all_entities, contained,
                                   disjoint_mentions>>]_vars

\* C12 witness: a collection was built from a full list of mentions that is
\* not in ascending id order, and a later list with a repeated id that is
\* not next to its twin has been refused.
C12_Witness ==
    /\ last.op = "from_mentions" /\ last.res = "ValueError"
    /\ ~DuplicateIdsAdjacent(last.a)
    /\ Length = NumMentions
    /\ mentions[1][1] > mentions[2][1]

\* C13: every run that has finished found, under each of its terms, what it
\* finds when it runs alone, so its mentions and its final partition are
\* those of a run alone.
C13_RunsIndependent ==
    \A d \in Docs : threads[d].pc = "done" => threads[d].found = Alone(d)

\* The full-span surface string of mention m.
SurfaceString(m) == [i \in DOMAIN attrs[m].span |-> offset2string[attrs[m].span[i]]]

\* Some mention of entity c has the surface string of some mention of entity e.
SharesString(e, c) ==
    \E i \in DOMAIN mentions[e], j \in DOMAIN mentions[c] :
        SurfaceString(mentions[e][i]) = SurfaceString(mentions[c][j])

\* C14: the exact string match sieve returns the earliest candidate that
\* holds a mention with the surface string of a mention of the entity, and
\* None when there is no such candidate; entities with different strings
\* are not matched and so stay separate.
C14_ExactMatchEarliest ==
    result.fn = "match_full_name_overlap" =>
        LET c == result.candidates
            hits == {j \in DOMAIN c : SharesString(result.entity, c[j])}
        IN  /\ hits = {} => result.match = None
            /\ hits # {} =>
                  result.match = c[CHOOSE j \in hits : \A k \in hits : j <= k]

\* The known (non-null) values of an attribute over the mentions of an entity.
Known(e, a) == {attrs[mentions[e][i]][a] : i \in DOMAIN mentions[e]} \ {PyNone}

\* C15: the pronoun sieve returns a candidate only for an entity whose
\* mentions are all pronouns, only if some sentence of the candidate lies
\* within max_sentence_distance of the entity's sentences, and only if for
\* number, gender, person and entity_type the known values of entity and
\* candidate are empty on one side or intersect.
C15_PronounAgreement ==
    (result.fn = "resolve_pronoun_coreference" /\ result.match # None) =>
        LET e == result.entity
            c == result.match
            snr == {attrs[mentions[e][i]].sentence_number : i \in DOMAIN mentions[e]}
        IN  /\ \A i \in DOMAIN mentions[e] : attrs[mentions[e][i]].head_pos = "pron"
            /\ \E j \in DOMAIN mentions[c] :
                  LET n == attrs[mentions[c][j]].sentence_number
                  IN  /\ \E k \in snr : (\A l \in snr : k <= l) /\ k - max_sentence_distance <= n
                      /\ \E k \in snr : (\A l \in snr : l <= k) /\ n <= k + max_sentence_distance
            /\ \A a \in {"number", "gender", "person", "entity_type"} :
                  \/ Known(e, a) = {}
                  \/ Known(c, a) = {}
                  \/ Known(e, a) \cap Known(c, a) # {}

\* Candidate c holds a mention whose span is an appositive span of entity e.
IsAppositiveOf(c, e) ==
    \E i \in DOMAIN mentions[e], j \in DOMAIN mentions[c] :
        attrs[mentions[c][j]].span \in attrs[mentions[e][i]].appositives

\* Candidate c holds a mention whose span is a predicative span of entity e.
IsPredicativeOf(c, e) ==
    \E i \in DOMAIN mentions[e], j \in DOMAIN mentions[c] :
        attrs[mentions[c][j]].span \in attrs[mentions[e][i]].predicatives

\* Entity e is named.
Named(e) == \E i \in DOMAIN mentions[e] : attrs[mentions[e][i]].entity_type \in CORRECT_TYPES

\* The span of a mention of x is among the modifier spans of a mention of y.
Modifies(x, y) ==
    \E i \in DOMAIN mentions[x], j \in DOMAIN mentions[y] :
        attrs[mentions[x][i]].span \in attrs[mentions[y][j]].modifiers

\* C16: the precise constructs sieve returns the earliest candidate holding
\* a mention whose span is an appositive span of the entity, when there is
\* one; and when no candidate matches as appositive or predicative and the
\* entity has no relative pronoun, it returns the earliest named candidate
\* that modifies or is modified by the entity, if the entity is named and
\* there is one.
C16_PreciseConstructsFirstMatch ==
    result.fn = "apply_precise_constructs" =>
        LET e == result.entity
            c == result.candidates
            apps == {j \in DOMAIN c : IsAppositiveOf(c[j], e)}
            preds == {j \in DOMAIN c : IsPredicativeOf(c[j], e)}
            acrs == {j \in DOMAIN c :
                        Named(e) /\ Named(c[j]) /\ (Modifies(e, c[j]) \/ Modifies(c[j], e))}
            rel == \E i \in DOMAIN mentions[e] : attrs[mentions[e][i]].is_relative_pronoun
        IN  /\ apps # {} =>
                  result.match = c[CHOOSE j \in apps : \A k \in apps : j <= k]
            /\ (apps = {} /\ preds = {} /\ ~rel /\ acrs # {}) =>
                  result.match = c[CHOOSE j \in acrs : \A k \in acrs : j <= k]

\* The span of an entity lies inside quotation q.
Inside(e, q) ==
    UNION {SeqToSet(attrs[mentions[e][i]].span) : i \in DOMAIN mentions[e]}
        \subseteq quotations[q].span

\* Quotation q is the first of the list that contains the entity.
FirstContaining(e, q) ==
    /\ q \in DOMAIN quotations
    /\ Inside(e, q)
    /\ \A p \in 1..(q - 1) : ~Inside(e, p)

\* The role a pronoun of the entity's person is merged with, and the two
\* roles it is to be kept apart from.
MergeRole(e, q) ==
    IF "1" \in mention_attr(e, "person") THEN quotations[q].source
    ELSE IF "2" \in mention_attr(e, "person") THEN quotations[q].addressee
    ELSE quotations[q].topic

ApartRoles(e, q) ==
    IF "1" \in mention_attr(e, "person")
    THEN {quotations[q].topic, quotations[q].addressee}
    ELSE IF "2" \in mention_attr(e, "person")
    THEN {quotations[q].source, quotations[q].topic}
    ELSE {quotations[q].source, quotations[q].addressee}

\* C17: after speaker identification was applied to an entity of a 1st, 2nd
\* or 3rd person pronoun inside a quotation whose roles are entities of the
\* collection, the pronoun's entity has been merged into the entity of its
\* merge role (source, addressee, topic respectively) and that entity may
\* not be merged with the entities of the other two roles.
C17_SpeakerMergesAndSeparates ==
    \A q \in DOMAIN quotations :
        LET e == result.entity
        IN  (/\ result.fn = "speaker_identification"
             /\ "pron" \in mention_attr(e, "head_pos")
             /\ mention_attr(e, "person") \cap {"1", "2", "3"} # {}
             /\ FirstContaining(e, q)
             /\ MergeRole(e, q) \in Objs \ ({e} \cup ApartRoles(e, q))
             /\ ApartRoles(e, q) \subseteq (Objs \ {e}) \cup {None})
            => /\ SeqToSet(mentions[e]) \subseteq SeqToSet(mentions[MergeRole(e, q)])
               /\ ~Contains(e)
               /\ \A o \in ApartRoles(e, q) \ {None} :
                      ~merge_allowed(MergeRole(e, q), o)

\* C18: what speaker identification does for an entity comes from the first
\* quotation of the list that contains the entity: every mark it made and
\* the value it returned for merging stem from that quotation.
C18_OnlyFirstQuotation ==
    result.fn = "speaker_identification"
        => /\ \A mk \in result.marks : FirstContaining(result.entity, mk[1])
           /\ result.from # 0 => FirstContaining(result.entity, result.from)

\* The values of an attribute over the mentions of an entity that have it.
ValuesOf(e, attr) ==
    {attrs[mentions[e][i]][attr] :
        i \in {j \in DOMAIN mentions[e] : attr \in DOMAIN attrs[mentions[e][j]]}}

\* C19: mention_attr answers with exactly the values of the member mentions
\* that are not None, and raises AttributeError when there is no such value;
\* flat_mention_attr answers with the union of the members' collections and
\* raises AttributeError when no member has the attribute.
C19_MentionAttrSkipsNone ==
    /\ result.fn = "mention_attr"
        => IF ValuesOf(result.entity, result.attr) \ {PyNone} = {}
           THEN result.res = "AttributeError"
           ELSE /\ result.res = "ok"
                /\ result.value = ValuesOf(result.entity, result.attr) \ {PyNone}
    /\ result.fn = "flat_mention_attr"
        => IF ValuesOf(result.entity, result.attr) = {}
           THEN result.res = "AttributeError"
           ELSE /\ result.res = "ok"
                /\ result.value = UNION ValuesOf(result.entity, result.attr)

\* C20: a filter called on an entity is true exactly when some member
\* mention satisfies that filter's own condition: a noun or name head for
\* is_nominal, an entity type for is_named_entity, an entity type among PER,
\* ORG, LOC and MISC for is_proper_noun, a pronoun head for is_pronoun.
C20_FiltersLifted ==
    LET Some(P(_)) == \E i \in DOMAIN mentions[result.entity] :
                          P(attrs[mentions[result.entity][i]])
        Nominal(m) == m.head_pos \in {"noun", "name"}
        NamedEntity(m) == m.entity_type # PyNone
        ProperNoun(m) == m.entity_type \in {"PER", "ORG", "LOC", "MISC"}
        Pronoun(m) == m.head_pos = "pron"
    IN  /\ result.fn = "is_nominal" => (result.value <=> Some(Nominal))
        /\ result.fn = "is_named_entity" => (result.value <=> Some(NamedEntity))
        /\ result.fn = "is_proper_noun" => (result.value <=> Some(ProperNoun))
        /\ result.fn = "is_pronoun" => (result.value <=> Some(Pronoun))

\* The two mentions the check was called on have the same begin offset and
\* the same end offset.
SameOffsets ==
    /\ attrs[result.antecedent].begin_offset = attrs[result.mention].begin_offset
    /\ attrs[result.antecedent].end_offset = attrs[result.mention].end_offset

\* C21: check_not_i_within_i returns false for every pair of mentions whose
\* begin offsets are equal and whose end offsets are equal: each of the two
\* contains the other.
C21_IdenticalOffsetsFail ==
    (result.fn = "check_not_i_within_i" /\ SameOffsets) => ~result.value

\* C21 witness: the check was called on two different mentions with equal
\* begin and equal end offsets.
C21_Witness ==
    /\ result.fn = "check_not_i_within_i"
    /\ result.antecedent # result.mention
    /\ SameOffsets

\* C21 as stated: check_not_i_within_i returns true for every pair of
\* mentions whose begin and end offsets are identical.
C21_IdenticalOffsetsSatisfy ==
    (result.fn = "check_not_i_within_i" /\ SameOffsets) => result.value

\* C28: check_not_i_within_i gives the same answer with its arguments
\* swapped, and its answer is that of the expression in its docstring:
\* neither [begin, end] interval contains the other.
C28_NotIWithinISymmetric ==
    result.fn = "check_not_i_within_i"
        => LET boffset1 == attrs[result.antecedent].begin_offset
               eoffset1 == attrs[result.antecedent].end_offset
               boffset2 == attrs[result.mention].begin_offset
               eoffset2 == attrs[result.mention].end_offset
           IN  /\ result.value = check_not_i_within_i(result.mention, result.antecedent)
               /\ result.value = ~(\/ (boffset2 <= boffset1 /\ eoffset1 <= eoffset2)
                                   \/ (boffset1 <= boffset2 /\ eoffset2 <= eoffset1))

\* C28 witness: the check answered true for one pair of mentions, so
\* neither interval contains the other.
C28_Witness ==
    /\ result.fn = "check_not_i_within_i"
    /\ result.value
    /\ attrs[result.antecedent].begin_offset < attrs[result.mention].begin_offset

\* The strings at the offsets an attribute holds over the mentions of an
\* entity.
WordsOf(e, attr) ==
    {offset2string[o] : o \in UNION {attrs[mentions[e][i]][attr] : i \in DOMAIN mentions[e]}}

C23_PostProcessSingletons ==
    LET TwoOrMore(e) == Len(mentions[e]) >= 2
    IN  result.fn = "post_process"
            => /\ result.res = "ok"
               /\ IterAll = IF result.include_singletons THEN result.before
                            ELSE SelectSeq(result.before, TwoOrMore)
               /\ \A e \in DOMAIN contained : Len(mentions[e]) >= 1

\* A step that is a call of Entities.remove or Entities.discard.
RemovalCall == last'.op \in {"remove", "discard"} /\ last'.tick # last.tick

\* C24: remove(e) of a non-member raises KeyError, discard(e) of a
\* non-member returns, and both leave the collection as it is; remove(e)
\* and discard(e) of a member make len one less, make e and nothing else a
\* non-member and leave the other members in their order; a collection
\* brought to len 0 iterates nothing.
C24_RemoveAndDiscard ==
    [][RemovalCall =>
          LET e == last'.a
              NotE(x) == x # e
          IN  /\ ~Contains(e) =>
                    /\ last'.res = (IF last'.op = "remove" THEN "KeyError" ELSE "ok")
                    /\ UNCHANGED <<mentions, all_entities, contained, disjoint_mentions>>
              /\ Contains(e) =>
                    /\ last'.res = "ok"
                    /\ Length' = Length - 1
                    /\ DOMAIN contained' = DOMAIN contained \ {e}
                    /\ IterAll' = SelectSeq(IterAll, NotE)
                    /\ UNCHANGED <<mentions, disjoint_mentions>>
              /\ Length' = 0 => IterAll' = <<>>]_vars

\* C24 witness: the last member has just been removed from a collection
\* that had several, and nothing is left to iterate.
C24_Witness ==
    /\ last.op = "remove" /\ last.res = "ok"
    /\ Length = 0 /\ IterAll = <<>>
    /\ Len(all_entities) >= 2

\* A step that is a call of the Entity constructor.
EntityCall == last'.op = "Entity" /\ last'.tick # last.tick

\* C25: Entity(ms) raises ValueError for an empty ms and otherwise holds the
\* mentions ms; every entity of the collection, member or not, holds at
\* least one mention; and no step takes a mention away from an entity.
C25_EntityNeverEmpty ==
    /\ [](\A i \in DOMAIN all_entities :
             all_entities[i] # None => Len(mentions[all_entities[i]]) >= 1)
    /\ [](\A e \in DOMAIN contained : Len(mentions[e]) >= 1)
    /\ [][/\ \A e \in Ents :
                /\ Len(mentions'[e]) >= Len(mentions[e])
                /\ SubSeq(mentions'[e], 1, Len(mentions[e])) = mentions[e]
          /\ EntityCall =>
                IF last'.b = <<>>
                THEN last'.res = "ValueError" /\ UNCHANGED mentions
                ELSE last'.res = "ok" /\ mentions'[last'.a] = last'.b]_vars

\* C25 witness: the constructor has just refused an empty list of mentions
\* in a collection where an entity has grown by a merge.
C25_Witness ==
    /\ last.op = "Entity" /\ last.b = <<>> /\ last.res = "ValueError"
    /\ \E e \in DOMAIN contained : Len(mentions[e]) >= 2

\* C26: get_candidates(entity) without a filter yields the members before
\* the entity that may be merged with it and that the collection's default
\* filter accepts; without a default filter, all that may be merged.
C26_DefaultFilterApplied ==
    (result.fn = "get_candidates" /\ result.res = "ok")
        => LET Keep(c) == /\ merge_allowed(result.entity, c)
                          /\ result.default_filter.given
                                => c \in result.default_filter.accepts
           IN  result.value = SelectSeq(entities_before(result.entity), Keep)

\* C27: a pass whose sieve returns None or an offered candidate runs to its
\* end: it is never ended by an exception, every entity is a member when the
\* sieve is applied to it, the entities still to visit are members in
\* collection order, the candidates offered
\* never include the first member's predecessors (it has none, so it is
\* never merged away), and a finished pass has visited everything.
C27_PassRunsToEnd ==
    /\ run.status # "raised"
    /\ run.pc = "sieve" =>
          /\ Contains(run.cur)
          /\ run.offered = get_candidates(run.cur, Objs)
          /\ (IterAll # <<>> /\ run.cur = IterAll[1]) => run.offered = <<>>
    /\ run.pc \in {"loop", "sieve"} =>
          \A i \in DOMAIN run.todo :
              /\ Contains(run.todo[i])
              /\ \A j \in DOMAIN run.todo :
                    i < j => contained[run.todo[i]] < contained[run.todo[j]]
    /\ run.status = "done" => run.todo = <<>>

\* C29: for a span that is not empty, get_offsets_from_span returns as
\* begin_offset the smallest start offset of the span's terms and as
\* end_offset a value at least as large as the end (offset + length) of
\* every term of the span, so that begin_offset <= o < end_offset for the
\* offset o of every term of the span.
C29_OffsetsBoundSpan ==
    (result.fn = "get_offsets_from_span" /\ result.span # <<>>)
        => /\ \A i \in DOMAIN result.span :
                 result.value.begin_offset <= get_offset(result.span[i])
           /\ \E i \in DOMAIN result.span :
                 result.value.begin_offset = get_offset(result.span[i])
           /\ \A i \in DOMAIN result.span :
                 /\ get_offset(result.span[i]) + get_term_length(result.span[i])
                       <= result.value.end_offset
                 /\ get_offset(result.span[i]) < result.value.end_offset

\* C30: get_named_entities keeps only maximal spans, for any order of the
\* references: the spans of the returned entities are pairwise incomparable
\* under set inclusion and the span of every reference is a subset of the
\* span of some returned entity.
C30_OnlyMaximalSpans ==
    result.fn = "get_named_entities"
        => /\ \A i, j \in DOMAIN result.value :
                 i # j => ~(result.value[i].span \subseteq result.value[j].span)
           /\ \A k \in DOMAIN nafobj.entities :
                 \E i \in DOMAIN result.value :
                     nafobj.entities[k].span \subseteq result.value[i].span

\* C30 witness: a reference with a larger span came after a reference with
\* a strictly smaller span, and the call returned the larger one only.
C30_Witness ==
    /\ result.fn = "get_named_entities"
    /\ Len(result.value) = 1
    /\ \E k, l \in DOMAIN nafobj.entities :
          /\ k < l
          /\ nafobj.entities[k].span \subseteq nafobj.entities[l].span
          /\ nafobj.entities[k].span # nafobj.entities[l].span
          /\ result.value[1] = nafobj.entities[l]

====
